---- MODULE Spec2Model ----
(***************************************************************************)
(* Video analysis pipeline of HackHers26: decode_video_bytes,              *)
(* sample_frames, the per-frame face location and ROI extraction, the      *)
(* quality, liveness, presage and deepfake scorers and the aggregation in  *)
(* analyze_video_bytes; and the payment gate around it: initiate_payment,   *)
(* the challenge store, the two payment rails and liveness_upload.         *)
(*                                                                         *)
(* Floats are fixed-point integers in thousandths (ONE = 1.0); a quotient  *)
(* is rounded towards minus infinity, so the sign of a value and its       *)
(* comparison with a threshold that is a multiple of 0.001 are those of    *)
(* the exact value.  What OpenCV computes from pixels (the face box, the   *)
(* Laplacian variance, the optical flow field, ...) is an attribute of the *)
(* frame, drawn from a small catalogue of frame kinds.                     *)
(***************************************************************************)
EXTENDS Integers, Sequences, FiniteSets, TLC

VARIABLES
    video,        \* the byte buffer, by what the decoder makes of it
    config,       \* [sample_interval, max_frames]
    weights,      \* environment: DEEPFAKE_WEIGHTS names a loadable network
    call,         \* number of the running invocation of analyze_video_bytes
    pc,           \* position inside analyze_video_bytes / decode_video_bytes
    tmpFiles,     \* scratch files on disk, named by the call that made them
    cap_frames,   \* decode_video_bytes: the local list `frames`
    decoded,      \* (success, frames, signals) returned by decode_video_bytes
    sampled,      \* sample_frames: (sampled, indices, signals)
    all_signals,  \* analyze_video_bytes: the local list all_signals
    signals,      \* analyze_video_bytes: the local list signals
    face_bboxes,  \* per sampled frame: a box <<x, y, w, h>> or None
    rois,         \* per sampled frame: the ROI rectangle <<x, y, w, h>> or None
    scores,       \* the scorer outputs gathered so far
    emitted,      \* every tag some stage has emitted during this call
    result,       \* Pending, Raised or the returned record
    results,      \* the results of the finished invocations, oldest first
    arg,          \* argument of a directly called function
    ret,          \* its return value
    redis,           \* settings: REDIS_URL names a server that answers
    transfers,       \* the Transfer table, by payment id
    challenge_rows,  \* the Challenge table, by challenge id
    challenge_store, \* repo._challenge_store, or the challenge:* keys of Redis
    expired,         \* the challenges whose expires_at lies in the past
    bank_pending,    \* gateway_bank_simulator._pending
    sol_pending,     \* solana_service._pending
    uploads,         \* the calls of liveness_upload in progress
    responses,       \* per challenge: the latest answer to an upload of it
    requests,        \* the number of uploads received so far
    rail_calls       \* per payment: the gateway calls and recorded decisions

pipe_vars == <<video, config, weights, call, pc, tmpFiles, cap_frames, decoded,
               sampled, all_signals, signals, face_bboxes, rois, scores,
               emitted, result, results>>
fn_vars == <<arg, ret>>
pay_vars == <<redis, transfers, challenge_rows, challenge_store, expired,
              bank_pending, sol_pending, uploads, responses, requests,
              rail_calls>>
vars == <<pipe_vars, fn_vars, pay_vars>>

\* Python's None where a box, an ROI or a list is expected
None == <<>>

\* what analyze_video_bytes has produced: nothing yet, a raised exception, or
\* the returned record (kind "returned" and the keys of the record)
Pending == [kind |-> "pending"]
Raised == [kind |-> "raised"]

\* a directly called function: not called
NoCall == [fn |-> "none"]

(***************************************************************************)
(* The payment state: the Transfer and Challenge tables, the challenge     *)
(* store, and the dictionaries of the two payment rails.  generate_id      *)
(* never repeats, so payments are numbered; the challenge of a payment,    *)
(* its bank transaction and its Solana pending entry carry its number.     *)
(***************************************************************************)
MaxUploads == 3

\* one payment and its challenge: no handler reads or writes a row, a key or
\* a dictionary entry of another payment than the one it is called for
Payments == {1}
Slots == {1, 2}
Rails == {"BANK", "SOLANA"}

\* db/models.py Transfer: no row, and the columns the handlers write.
\* provider_ref is None ("none"), the bank transaction id of the payment
\* ("txn") or a reference the rail returned on execution ("ref")
NoTransfer == [status |-> "NONE", rail |-> "NONE", provider_ref |-> "none",
               solana_pending_id |-> 0]

\* db/models.py Challenge: no row, and the columns update_challenge_decision writes
NoChallengeRow == [made |-> FALSE, decision |-> "none", retry_count |-> 0]

\* repo.get_challenge returning None, and the keys of ch_data that
\* liveness_upload reads (solana_pending_id 0 is None)
NoChallenge == [present |-> FALSE, payment_id |-> 0, rail |-> "NONE",
                retry_count |-> 0, solana_pending_id |-> 0]

\* an upload slot with no call of liveness_upload in it
IdleUpload == [pc |-> "idle", challenge_id |-> 0, ch_data |-> NoChallenge,
               decision |-> "none", bank_id |-> "none", pref |-> "none"]

\* no upload of a challenge was answered; else the status code and the
\* decision of the latest answer and the number of answers with decision RETRY
NoAnswer == [code |-> 0, decision |-> "none", retries |-> 0]

NoCalls == [execute |-> 0, found |-> 0, cancel |-> 0, terminal |-> 0]

\* the tables, the store and the rails as the server first finds them
EmptyStores ==
    /\ transfers = [p \in Payments |-> NoTransfer]
    /\ challenge_rows = [c \in Payments |-> NoChallengeRow]
    /\ challenge_store = [c \in Payments |-> NoChallenge]
    /\ expired = {}
    /\ bank_pending = [p \in Payments |-> "ABSENT"]
    /\ sol_pending = [p \in Payments |-> "ABSENT"]
    /\ uploads = [u \in Slots |-> IdleUpload]
    /\ responses = [c \in Payments |-> NoAnswer]
    /\ requests = 0
    /\ rail_calls = [p \in Payments |-> NoCalls]

\* no payment is ever initiated
NoPayments ==
    /\ redis = FALSE
    /\ EmptyStores

(***************************************************************************)
(* Bounds of the model.                                                    *)
(***************************************************************************)
MaxDecoded == 3
MaxInterval == 2
MaxMaxFrames == 3
MaxTotal == 7

(***************************************************************************)
(* Program constants.                                                      *)
(***************************************************************************)
ONE == 1000
DefaultSampleInterval == 15
DefaultMaxFrames == 12
LowFrameCount == 3

(***************************************************************************)
(* Arithmetic helpers (numpy reductions on fixed-point values).            *)
(***************************************************************************)
Min(a, b) == IF a < b THEN a ELSE b
Max(a, b) == IF a > b THEN a ELSE b
Abs(a) == IF a < 0 THEN -a ELSE a

RECURSIVE SumSeq(_)
SumSeq(s) == IF s = <<>> THEN 0 ELSE Head(s) + SumSeq(Tail(s))

\* np.mean of a non-empty sequence
Mean(s) == SumSeq(s) \div Len(s)

\* np.var of a non-empty sequence of fixed-point values, itself fixed-point:
\* mean(x^2) - mean(x)^2 = (n * sum(x^2) - sum(x)^2) / n^2, over ONE
Var(s) ==
    LET n == Len(s)
        sq == SumSeq([i \in 1..n |-> s[i] * s[i]])
        su == SumSeq(s)
    IN  (n * sq - su * su) \div (n * n * ONE)

\* np.diff
Diff(s) == [i \in 1..(Len(s) - 1) |-> s[i + 1] - s[i]]

\* list(set(xs)): the distinct elements, in some order
ToSet(s) == {s[i] : i \in 1..Len(s)}

RECURSIVE SetToSeq(_)
SetToSeq(S) ==
    IF S = {} THEN <<>>
    ELSE LET x == CHOOSE y \in S : TRUE IN <<x>> \o SetToSeq(S \ {x})

\* floor of the square root, by Newton iteration
RECURSIVE NewtonSqrt(_, _)
NewtonSqrt(n, x) ==
    LET y == (x + n \div x) \div 2
    IN  IF y >= x THEN x ELSE NewtonSqrt(n, y)
ISqrt(n) == IF n <= 0 THEN 0 ELSE NewtonSqrt(n, n)

(***************************************************************************)
(* sample_frames (video/sampling.py)                                       *)
(***************************************************************************)
\* list(range(start, stop, step)) for step >= 1
RECURSIVE PyRange(_, _, _)
PyRange(start, stop, step) ==
    IF start >= stop THEN <<>>
    ELSE <<start>> \o PyRange(start + step, stop, step)

\* xs[:n] for n >= 0
Prefix(xs, n) == SubSeq(xs, 1, Min(n, Len(xs)))

\* frames[indices]: indices are 0-based positions
Take(frames, indices) == [k \in 1..Len(indices) |-> frames[indices[k] + 1]]

\* line 29: if len(indices) > max_frames
TruncatesAtEqual(n, max_frames) == n >= max_frames
Truncates(n, max_frames) == n > max_frames

\* line 35: if len(sampled) < 3
IsLowAtThree(n) == n <= LowFrameCount
IsLowFrameCount(n) == n < LowFrameCount

sample_frames(frames, sample_interval, max_frames) ==
    LET total_frames == Len(frames)
        all_idx == PyRange(0, total_frames, sample_interval)
        limited == Truncates(Len(all_idx), max_frames)
        indices == IF limited THEN Prefix(all_idx, max_frames) ELSE all_idx
        s1 == IF limited THEN <<"max_frames_limited">> ELSE <<>>
        smp == Take(frames, indices)
        s2 == IF IsLowFrameCount(Len(smp)) THEN s1 \o <<"low_frame_count">> ELSE s1
    IN  IF total_frames = 0
        THEN [sampled |-> <<>>, indices |-> <<>>, signals |-> <<"no_frames_to_sample">>]
        ELSE [sampled |-> smp, indices |-> indices, signals |-> s2]

\* get_frame_indices
get_frame_indices(total_frames, sample_interval, max_frames) ==
    Prefix(PyRange(0, total_frames, sample_interval), max_frames)

(***************************************************************************)
(* The frames.  A frame kind stands for the pixels of one decoded frame;   *)
(* its fields are what OpenCV and numpy measure on those pixels.           *)
(*   green      mean of the green channel of the whole frame               *)
(*   bbox       detect_face_haar: <<x, y, w, h>> or None                   *)
(*   lap_var    variance of the Laplacian of the face ROI                  *)
(*   intensity  mean grey level of the face ROI                            *)
(*   region_var grey variance of forehead, left cheek, right cheek         *)
(*   edge, rgb, patch_mean_var, patch_std_var                              *)
(*              what FakeModel measures on the normalised ROI tensor       *)
(*   net_prob   output of the trained network on that tensor               *)
(***************************************************************************)
FrameShape == [h |-> 48, w |-> 64]

FrameKinds == <<
    \* 1: flat uniform frame, no texture, no face
    [green |-> 0, bbox |-> None, lap_var |-> 0, intensity |-> 0,
     region_var |-> <<0, 0, 0>>, edge |-> 0, rgb |-> <<0, 0, 0>>,
     patch_mean_var |-> 0, patch_std_var |-> 0, net_prob |-> 500],
    \* 2: sharp, well lit face
    [green |-> 1, bbox |-> <<8, 8, 32, 32>>, lap_var |-> 300, intensity |-> 120,
     region_var |-> <<400, 300, 500>>, edge |-> 20, rgb |-> <<130, 110, 100>>,
     patch_mean_var |-> 80, patch_std_var |-> 40, net_prob |-> 100],
    \* 3: the face moved 12 px, blurred and dim
    [green |-> 2, bbox |-> <<20, 8, 32, 32>>, lap_var |-> 30, intensity |-> 20,
     region_var |-> <<50, 40, 60>>, edge |-> 50, rgb |-> <<200, 100, 50>>,
     patch_mean_var |-> 250, patch_std_var |-> 90, net_prob |-> 900],
    \* 4: face box reaching over the frame border, over-exposed, artefacts
    [green |-> 4, bbox |-> <<40, 30, 32, 32>>, lap_var |-> 150, intensity |-> 230,
     region_var |-> <<2000, 1500, 900>>, edge |-> 100, rgb |-> <<10, 200, 10>>,
     patch_mean_var |-> 10, patch_std_var |-> 5, net_prob |-> 600] >>

Kinds == 1..Len(FrameKinds)

\* cv2.calcOpticalFlowFarneback(frames[i], frames[i+1]): a grid of <<dx, dy>>
\* vectors (fixed-point pixels).  Identical frames have no flow.
ZeroFlow == << << <<0, 0>>, <<0, 0>> >>, << <<0, 0>>, <<0, 0>> >> >>
RigidFlow == << << <<1000, 0>>, <<1000, 0>> >>, << <<1000, 0>>, <<1000, 0>> >> >>
NonRigidFlow == << << <<2000, 0>>, <<0, 1000>> >>, << <<0, -1000>>, <<-2000, 0>> >> >>
LargeFlow == << << <<9000, 3000>>, <<8000, 3000>> >>, << <<9000, 4000>>, <<9000, 3000>> >> >>

compute_optical_flow(prev_kind, curr_kind) ==
    CASE prev_kind = curr_kind -> ZeroFlow
      [] prev_kind # curr_kind /\ 1 \in {prev_kind, curr_kind} -> RigidFlow
      [] {prev_kind, curr_kind} = {2, 3} -> NonRigidFlow
      [] OTHER -> LargeFlow

\* detect_face_haar
detect_face_haar(kind) == FrameKinds[kind].bbox

(***************************************************************************)
(* extract_face_roi (ml/infer.py): the rectangle sliced out of the frame   *)
(***************************************************************************)
extract_face_roi(bbox) ==
    IF bbox = None THEN None
    ELSE LET x == Max(0, bbox[1])
             y == Max(0, bbox[2])
             w == Min(bbox[3], FrameShape.w - x)
             h == Min(bbox[4], FrameShape.h - y)
         IN  IF w <= 0 \/ h <= 0 THEN None
             ELSE <<x, y, w, h>>

\* roi is not None and roi.size > 0
HasRoi(roi) == roi # None /\ roi[3] * roi[4] > 0

\* len(a[lo:hi]) on an axis of length n (a negative bound counts from the end)
PyIndex(i, n) == IF i < 0 THEN Max(0, i + n) ELSE Min(i, n)
SliceLen(lo, hi, n) == Max(0, PyIndex(hi, n) - PyIndex(lo, n))

(***************************************************************************)
(* Quality (video/quality.py)                                              *)
(***************************************************************************)
BlurDivisor == 150
OptimalLow == 50
OptimalHigh == 200

compute_blur_score(kind) ==
    Min((FrameKinds[kind].lap_var * ONE) \div BlurDivisor, ONE)

compute_brightness_score(kind) ==
    LET mean_intensity == FrameKinds[kind].intensity
    IN  IF OptimalLow <= mean_intensity /\ mean_intensity <= OptimalHigh THEN ONE
        ELSE IF mean_intensity < OptimalLow
             THEN (mean_intensity * ONE) \div OptimalLow
             ELSE Max(0, ONE - ((mean_intensity - OptimalHigh) * ONE) \div 100)

\* max(0.0, min(1.0, v))
Clamp01(v) == Max(0, Min(ONE, v))

\* the blur and brightness averaged over the present ROIs only
QualitySkipsMissingRois(rs, kinds) ==
    LET total_frames == Len(rs)
        present == SelectSeq([i \in 1..total_frames |-> i], LAMBDA i : HasRoi(rs[i]))
        avg_blur == IF present = <<>> THEN 0
                    ELSE Mean([k \in 1..Len(present) |-> compute_blur_score(kinds[present[k]])])
        avg_brightness == IF present = <<>> THEN 0
                          ELSE Mean([k \in 1..Len(present) |->
                                        compute_brightness_score(kinds[present[k]])])
        face_presence_ratio == (Len(present) * ONE) \div total_frames
        quality == Clamp01((400 * avg_blur + 300 * avg_brightness
                            + 300 * face_presence_ratio) \div ONE)
        sig == (IF face_presence_ratio < 500 THEN <<"low_face_presence">> ELSE <<>>)
               \o (IF avg_blur < 300 THEN <<"blurry_video">> ELSE <<>>)
               \o (IF avg_brightness < 300 THEN <<"poor_lighting">> ELSE <<>>)
    IN  IF total_frames = 0
        THEN [score |-> 0, signals |-> <<"no_rois">>]
        ELSE [score |-> quality, signals |-> sig]

\* an empty ROI list scored like a list without faces
QualityFlagsEmptyList(rs, kinds) ==
    IF Len(rs) = 0
    THEN [score |-> 0, signals |-> <<"no_rois", "low_face_presence", "blurry_video",
                                     "poor_lighting">>]
    ELSE [score |-> 0, signals |-> <<"low_face_presence">>]

\* rois: the ROI rectangles; kinds: the frames they were cut from
compute_quality_score(rs, kinds) ==
    LET total_frames == Len(rs)
        blur_scores == [i \in 1..total_frames |->
                          IF HasRoi(rs[i]) THEN compute_blur_score(kinds[i]) ELSE 0]
        brightness_scores == [i \in 1..total_frames |->
                          IF HasRoi(rs[i]) THEN compute_brightness_score(kinds[i]) ELSE 0]
        frames_with_face == Cardinality({i \in 1..total_frames : HasRoi(rs[i])})
        face_presence_ratio == (frames_with_face * ONE) \div total_frames
        avg_blur == Mean(blur_scores)
        avg_brightness == Mean(brightness_scores)
        quality == Clamp01((400 * avg_blur + 300 * avg_brightness
                            + 300 * face_presence_ratio) \div ONE)
        sig == (IF face_presence_ratio < 500 THEN <<"low_face_presence">> ELSE <<>>)
               \o (IF avg_blur < 300 THEN <<"blurry_video">> ELSE <<>>)
               \o (IF avg_brightness < 300 THEN <<"poor_lighting">> ELSE <<>>)
    IN  IF total_frames = 0
        THEN [score |-> 0, signals |-> <<"no_rois">>]
        ELSE [score |-> quality, signals |-> sig]

(***************************************************************************)
(* Liveness (video/liveness.py)                                            *)
(***************************************************************************)
MotionThreshold == 2000

\* a flow grid: rows of <<dx, dy>>; one component as a matrix
FlowComp(flow, c) == [r \in 1..Len(flow) |-> [k \in 1..Len(flow[r]) |-> flow[r][k][c]]]

\* np.gradient(m, axis=0): differences along the rows (first index)
GradAxis0(m) ==
    LET n == Len(m)
    IN  [r \in 1..n |-> [k \in 1..Len(m[r]) |->
            IF r = 1 THEN m[2][k] - m[1][k]
            ELSE IF r = n THEN m[n][k] - m[n - 1][k]
            ELSE (m[r + 1][k] - m[r - 1][k]) \div 2]]

\* np.gradient(m, axis=1): differences along the columns (second index)
GradAxis1(m) ==
    [r \in 1..Len(m) |->
        LET n == Len(m[r])
        IN  [k \in 1..n |->
                IF k = 1 THEN m[r][2] - m[r][1]
                ELSE IF k = n THEN m[r][n] - m[r][n - 1]
                ELSE (m[r][k + 1] - m[r][k - 1]) \div 2]]

MatAdd(a, b) == [r \in 1..Len(a) |-> [k \in 1..Len(a[r]) |-> a[r][k] + b[r][k]]]
MatSub(a, b) == [r \in 1..Len(a) |-> [k \in 1..Len(a[r]) |-> a[r][k] - b[r][k]]]

\* np.mean(np.abs(m))
MeanAbs(m) ==
    SumSeq([r \in 1..Len(m) |-> SumSeq([k \in 1..Len(m[r]) |-> Abs(m[r][k])])])
        \div (Len(m) * Len(m[1]))

non_rigid_energy(flow) ==
    LET flow_x == FlowComp(flow, 1)
        flow_y == FlowComp(flow, 2)
        grad_x == GradAxis0(flow_x)
        grad_y == GradAxis1(flow_y)
        divergence == MatAdd(grad_x, grad_y)
        curl == MatSub(GradAxis0(flow_y), GradAxis1(flow_x))
    IN  MeanAbs(divergence) + MeanAbs(curl)

global_flow(flow) == MeanAbs(FlowComp(flow, 1)) + MeanAbs(FlowComp(flow, 2))

compute_non_rigid_ratio(flow) ==
    IF global_flow(flow) = 0 THEN 500
    ELSE LET non_rigid_ratio == (non_rigid_energy(flow) * ONE) \div global_flow(flow)
         IN  Min(non_rigid_ratio \div 2, ONE)

\* (x + w // 2, y + h // 2)
BboxCenter(bbox) == <<bbox[1] + bbox[3] \div 2, bbox[2] + bbox[4] \div 2>>

\* np.sqrt(dx**2 + dy**2) between two centres
Displacement(c1, c2) ==
    LET dx == c2[1] - c1[1]
        dy == c2[2] - c1[2]
    IN  ISqrt((dx * dx + dy * dy) * ONE * ONE)

\* the mean displacement of consecutive valid centres (0 with fewer than two)
avg_displacement(bboxes) ==
    LET valid == SelectSeq(bboxes, LAMBDA b : b # None)
        valid_centers == [i \in 1..Len(valid) |-> BboxCenter(valid[i])]
    IN  IF Len(valid_centers) >= 2
        THEN Mean([i \in 1..(Len(valid_centers) - 1) |->
                      Displacement(valid_centers[i], valid_centers[i + 1])])
        ELSE 0

\* lines 110-115: the first box found in face_bboxes[i+1:], or None
FirstBoxFrom(bboxes, j) ==
    LET later == {k \in j..Len(bboxes) : bboxes[k] # None}
    IN  IF later = {} THEN None
        ELSE bboxes[CHOOSE k \in later : \A k2 \in later : k <= k2]

\* lines 109-121: whether the pair (frames[i], frames[i+1]) contributes a ratio
\* (i is the 1-based position of the earlier frame)
PairQualifies(bboxes, i) ==
    LET bbox == FirstBoxFrom(bboxes, i + 1)
    IN  /\ bbox # None
        /\ SliceLen(bbox[2], bbox[2] + bbox[4], FrameShape.h)
             * SliceLen(bbox[1], bbox[1] + bbox[3], FrameShape.w) > 0

non_rigid_ratios(kinds, bboxes) ==
    LET pairs == SelectSeq([i \in 1..(Len(kinds) - 1) |-> i],
                           LAMBDA i : PairQualifies(bboxes, i))
    IN  [k \in 1..Len(pairs) |->
            compute_non_rigid_ratio(compute_optical_flow(kinds[pairs[k]], kinds[pairs[k] + 1]))]

\* the score computed without the early return for fewer than 2 frames
LivenessWithoutFrameGuard(kinds, bboxes) ==
    LET valid == SelectSeq(bboxes, LAMBDA b : b # None)
        avg_disp == avg_displacement(bboxes)
        s1 == IF Len(valid) >= 2 /\ avg_disp < MotionThreshold
              THEN <<"low_motion">> ELSE <<>>
        found == non_rigid_ratios(kinds, bboxes)
        ratios == IF found = <<>> THEN <<500>> ELSE found
        avg_non_rigid == Mean(ratios)
        s2 == IF avg_non_rigid < 300 THEN s1 \o <<"rigid_motion_suspected">> ELSE s1
        motion_compliance == Min(avg_disp \div 20, ONE)
    IN  [score |-> Clamp01((400 * motion_compliance + 600 * avg_non_rigid) \div ONE),
         signals |-> s2]

compute_liveness_score(kinds, bboxes) ==
    LET valid == SelectSeq(bboxes, LAMBDA b : b # None)
        avg_disp == avg_displacement(bboxes)
        s1 == IF Len(valid) >= 2 /\ avg_disp < MotionThreshold
              THEN <<"low_motion">> ELSE <<>>
        found == non_rigid_ratios(kinds, bboxes)
        ratios == IF found = <<>> THEN <<500>> ELSE found
        avg_non_rigid == Mean(ratios)
        s2 == IF avg_non_rigid < 300 THEN s1 \o <<"rigid_motion_suspected">> ELSE s1
        motion_compliance == Min(avg_disp \div 20, ONE)
        liveness == Clamp01((400 * motion_compliance + 600 * avg_non_rigid) \div ONE)
    IN  IF Len(kinds) < 2
        THEN [score |-> 500, signals |-> <<"insufficient_frames_for_liveness">>]
        ELSE [score |-> liveness, signals |-> s2]

(***************************************************************************)
(* Presage features (video/presage_features.py)                            *)
(***************************************************************************)
\* int(n * p / 100)
Pct(n, p) == (n * p) \div 100

\* the three face regions of an ROI of h rows and w columns have pixels?
RegionSizes(roi) ==
    LET h == roi[4]
        w == roi[3]
        rows_f == SliceLen(Pct(h, 10), Pct(h, 35), h)
        rows_c == SliceLen(Pct(h, 50), Pct(h, 75), h)
    IN  << rows_f * SliceLen(Pct(w, 25), Pct(w, 75), w),
           rows_c * SliceLen(Pct(w, 10), Pct(w, 35), w),
           rows_c * SliceLen(Pct(w, 65), Pct(w, 90), w) >>

compute_micro_motion_energy(roi, kind) ==
    IF ~HasRoi(roi) THEN 0
    ELSE LET sizes == RegionSizes(roi)
             present == SelectSeq(<<1, 2, 3>>, LAMBDA r : sizes[r] > 0)
             energies == [k \in 1..Len(present) |->
                            Min(FrameKinds[kind].region_var[present[k]], ONE)]
         IN  IF energies = <<>> THEN 0 ELSE Mean(energies)

\* np.mean(np.abs(flow_curr - flow_next)) over both components
Jitter(f1, f2) ==
    (MeanAbs(MatSub(FlowComp(f1, 1), FlowComp(f2, 1)))
     + MeanAbs(MatSub(FlowComp(f1, 2), FlowComp(f2, 2)))) \div 2

compute_motion_smoothness(flows) ==
    IF Len(flows) < 2 THEN 500
    ELSE Mean([i \in 1..(Len(flows) - 1) |->
                  Max(0, ONE - Jitter(flows[i], flows[i + 1]) \div 5)])

\* np.correlate(d, d, mode='full')[len // 2:]: lags 0 .. len(d) - 1
Autocorr(d) ==
    [k \in 1..Len(d) |-> SumSeq([i \in 1..(Len(d) - k + 1) |-> d[i] * d[i + k - 1]])]

\* positions p (1-based, interior) with a[p-1] < a[p] > a[p+1]
Peaks(a) ==
    SelectSeq([i \in 1..Len(a) |-> i],
              LAMBDA p : p > 1 /\ p < Len(a) /\ a[p] > a[p - 1] /\ a[p] > a[p + 1])

\* a value beyond every threshold, for a quotient by the bare epsilon
Saturated == 1000 * ONE

\* line 84: return min(periodicity / 10.0, 1.0)
PeriodicityClamp(v) == Min(v, ONE)

\* greens: the mean green value of each frame (integers)
compute_periodicity_proxy(greens) ==
    IF Len(greens) < 3 THEN 0
    ELSE LET differences == Diff(greens)
             n == Len(differences)
             autocorr == Autocorr(differences)
             peaks == Peaks(autocorr)
             peak_sum == SumSeq([k \in 1..Len(peaks) |-> autocorr[peaks[k]]])
             \* np.var(differences) = var_num / n^2
             var_num == n * SumSeq([i \in 1..n |-> differences[i] * differences[i]])
                        - SumSeq(differences) * SumSeq(differences)
             \* mean(peaks) / (var + 1e-6) / 10
             tenth == IF var_num = 0
                      THEN (IF peak_sum > 0 THEN Saturated
                            ELSE IF peak_sum < 0 THEN -Saturated ELSE 0)
                      ELSE (peak_sum * n * n * ONE) \div (Len(peaks) * var_num * 10)
         IN  IF Len(autocorr) > 2 /\ peaks # <<>>
             THEN PeriodicityClamp(tenth)
             ELSE 0

compute_presage_features(kinds, rs, bboxes) ==
    LET total_frames == Len(kinds)
        frames_with_face == Cardinality({i \in 1..Len(bboxes) : bboxes[i] # None})
        face_presence_ratio == (frames_with_face * ONE) \div total_frames
        with_roi == SelectSeq([i \in 1..Len(rs) |-> i], LAMBDA i : HasRoi(rs[i]))
        micro_motions == [k \in 1..Len(with_roi) |->
                            compute_micro_motion_energy(rs[with_roi[k]], kinds[with_roi[k]])]
        micro_motion == IF micro_motions = <<>> THEN 0 ELSE Mean(micro_motions)
        flows == [i \in 1..(total_frames - 1) |->
                    compute_optical_flow(kinds[i], kinds[i + 1])]
        smoothness == compute_motion_smoothness(flows)
        periodicity_proxy ==
            compute_periodicity_proxy([i \in 1..total_frames |-> FrameKinds[kinds[i]].green])
        presage == Clamp01((350 * micro_motion + 350 * smoothness
                            + 150 * (ONE - periodicity_proxy)
                            + 150 * face_presence_ratio) \div ONE)
        sig == (IF micro_motion < 200 THEN <<"low_micro_motion">> ELSE <<>>)
               \o (IF smoothness < 400 THEN <<"unnatural_motion">> ELSE <<>>)
               \o (IF periodicity_proxy > 700 THEN <<"periodic_pattern_detected">> ELSE <<>>)
        zero_raw == [micro_motion |-> 0, smoothness |-> 0, periodicity_proxy |-> 0,
                     face_presence_ratio |-> 0]
    IN  IF total_frames = 0
        THEN [score |-> 0, raw |-> zero_raw, signals |-> <<>>]
        ELSE [score |-> presage,
              raw |-> [micro_motion |-> micro_motion, smoothness |-> smoothness,
                       periodicity_proxy |-> periodicity_proxy,
                       face_presence_ratio |-> face_presence_ratio],
              signals |-> sig]

(***************************************************************************)
(* Deepfake scorer (ml/model_loader.py, ml/preprocess.py)                  *)
(***************************************************************************)
EdgeThreshold == 35
BatchVarThreshold == 50
BatchPenalty == 100

\* lines 192-200 of analyze_video_bytes: the tensor handed to the model, by
\* what the model measures on it; np.zeros((3, 224, 224)) for a missing ROI
ZeroTensor == [edge |-> 0, rgb |-> <<0, 0, 0>>, patch_mean_var |-> 0,
               patch_std_var |-> 0, net_prob |-> 500]

Preprocess(roi, kind) ==
    IF HasRoi(roi)
    THEN [edge |-> FrameKinds[kind].edge, rgb |-> FrameKinds[kind].rgb,
          patch_mean_var |-> FrameKinds[kind].patch_mean_var,
          patch_std_var |-> FrameKinds[kind].patch_std_var,
          net_prob |-> FrameKinds[kind].net_prob]
    ELSE ZeroTensor

detect_edge_artifacts(t) ==
    LET edge_strength == t.edge
    IN  IF edge_strength < EdgeThreshold
        THEN (edge_strength * ONE) \div 350
        ELSE Min(((edge_strength - EdgeThreshold) * ONE) \div 60 + 100, ONE)

\* a / (b + 1e-6) for channel means a, b >= 0
RatioEps(a, b) ==
    IF b = 0 THEN (IF a = 0 THEN 0 ELSE Saturated) ELSE (a * ONE) \div b

detect_color_abnormality(t) ==
    LET rg_ratio == RatioEps(t.rgb[1], t.rgb[2])
        gb_ratio == RatioEps(t.rgb[2], t.rgb[3])
        rg_deviation == Max(0, Abs(rg_ratio - 1150) - 250)
        gb_deviation == Max(0, Abs(gb_ratio - 1050) - 200)
    IN  Min((rg_deviation + gb_deviation) \div 2, ONE)

detect_texture_anomaly(t) ==
    LET mean_var == t.patch_mean_var
        std_var == t.patch_std_var
    IN  IF 20 < mean_var /\ mean_var < 200 /\ std_var > 10 THEN 50
        ELSE IF mean_var < 20 THEN 300
        ELSE IF mean_var > 200 THEN 250
        ELSE 100

\* FakeModel.predict
FakeModel_predict(t) ==
    Clamp01(Mean(<<detect_edge_artifacts(t), detect_color_abnormality(t),
                   detect_texture_anomaly(t)>>))

\* the variance test applied to batches of any size
PredictBatchOfAnySize(tensors) ==
    LET probs == [i \in 1..Len(tensors) |-> FakeModel_predict(tensors[i])]
    IN  IF Len(probs) >= 1 /\ Var(probs) > BatchVarThreshold
        THEN [i \in 1..Len(probs) |-> Min(probs[i] + BatchPenalty, ONE)]
        ELSE probs

\* FakeModel.predict_batch
FakeModel_predict_batch(tensors) ==
    LET probs == [i \in 1..Len(tensors) |-> FakeModel_predict(tensors[i])]
    IN  IF Len(probs) >= 3 /\ Var(probs) > BatchVarThreshold
        THEN [i \in 1..Len(probs) |-> Min(probs[i] + BatchPenalty, ONE)]
        ELSE probs

\* RealDeepfakeModel.predict_batch with a loaded network
RealDeepfakeModel_predict_batch(tensors) ==
    [i \in 1..Len(tensors) |-> tensors[i].net_prob]

\* load_deepfake_model: is_fake_model
load_deepfake_model(env_weights) == ~env_weights

\* the inconsistency clamped without being doubled
TemporalUnscaled(fake_probs) ==
    IF Len(fake_probs) < 2 THEN 0
    ELSE LET d == Diff(fake_probs)
         IN  Min(Var(fake_probs) + Mean([i \in 1..Len(d) |-> Abs(d[i])]), ONE)

\* the variance of the probabilities alone, without their mean step
TemporalVarianceOnly(fake_probs) ==
    IF Len(fake_probs) < 2 THEN 0 ELSE Min(Var(fake_probs), ONE)

(***************************************************************************)
(* Temporal inconsistency and aggregation (ml/infer.py)                    *)
(***************************************************************************)
compute_temporal_inconsistency(fake_probs) ==
    IF Len(fake_probs) < 2 THEN 0
    ELSE LET variance == Var(fake_probs)
             d == Diff(fake_probs)
             mean_diff == Mean([i \in 1..Len(d) |-> Abs(d[i])])
             inconsistency == variance + mean_diff
         IN  Min(inconsistency * 2, ONE)

ZeroRaw == [micro_motion |-> 0, smoothness |-> 0, periodicity_proxy |-> 0,
            face_presence_ratio |-> 0]

\* the all-zero record of the early returns, with the given signals
ZeroRecordNeutralLiveness(sig) ==
    [kind |-> "returned", deepfake_mean |-> 0, deepfake_var |-> 0, liveness |-> 500,
     quality |-> 0, presage |-> 0, signals |-> sig, presage_raw |-> ZeroRaw]
ZeroRecord(sig) ==
    [kind |-> "returned", deepfake_mean |-> 0, deepfake_var |-> 0, liveness |-> 0,
     quality |-> 0, presage |-> 0, signals |-> sig, presage_raw |-> ZeroRaw]

(***************************************************************************)
(* Inputs                                                                  *)
(***************************************************************************)
\* the sequences over S of length 0 .. n
SeqsUpTo(S, n) == UNION {[1..k -> S] : k \in 0..n}

\* what happens when the buffer is decoded: "ok" (the container opens and
\* every read succeeds until the frames are exhausted), the container does
\* not open, or one of the calls raises
Outcomes == {"ok", "not_opened", "write_raises", "open_raises", "read_raises",
             "release_raises"}

\* the result of a failing decode does not depend on what the frames show,
\* so the failing buffers carry frames of one kind
VideosUpTo(n) ==
    {[outcome |-> "ok", frames |-> f] : f \in SeqsUpTo(Kinds, n)}
    \cup {[outcome |-> o, frames |-> [i \in 1..k |-> 1]] :
              o \in Outcomes \ {"ok"}, k \in 0..n}

\* the scorer outputs; ran: the scorers that have run
NoScores == [ran |-> {}, quality |-> 0, liveness |-> 0, presage |-> 0,
             presage_raw |-> ZeroRaw, fake_probs |-> <<>>]

NotDecoded == [success |-> FALSE, frames |-> <<>>, signals |-> <<>>]
NotSampled == [sampled |-> <<>>, indices |-> <<>>, signals |-> <<>>]

InitLocals ==
    /\ call = 1
    /\ pc = "start"
    /\ tmpFiles = {}
    /\ cap_frames = <<>>
    /\ decoded = NotDecoded
    /\ sampled = NotSampled
    /\ all_signals = <<>>
    /\ signals = <<>>
    /\ face_bboxes = <<>>
    /\ rois = <<>>
    /\ scores = NoScores
    /\ emitted = {}
    /\ result = Pending
    /\ results = <<>>
    /\ arg = NoCall
    /\ ret = NoCall

Init ==
    /\ video \in VideosUpTo(MaxDecoded)
    /\ config \in [sample_interval : 1..MaxInterval, max_frames : 0..MaxMaxFrames]
    /\ weights \in BOOLEAN
    /\ InitLocals
    /\ NoPayments

(***************************************************************************)
(* analyze_video_bytes, with decode_video_bytes in line                    *)
(***************************************************************************)
\* decode.py line 36: frames = []
FrameListKeptAcrossCalls == IF call > 1 THEN video.frames ELSE <<>>
NewFrameList == <<>>

\* decode.py line 34: the signals of a container that does not open
DecodeFailedUntagged == <<>>
decode_failed_signals == <<"decode_failed">>

\* infer.py lines 93-100
Enter ==
    /\ pc = "start"
    /\ all_signals' = <<>>
    /\ signals' = <<>>
    /\ pc' = "create"
    /\ UNCHANGED <<video, config, weights, call, tmpFiles, cap_frames, decoded,
                   sampled, face_bboxes, rois, scores, emitted, result, results,
                   fn_vars, pay_vars>>

\* decode.py line 25: NamedTemporaryFile(delete=False) creates the file
DecodeCreate ==
    /\ pc = "create"
    /\ tmpFiles' = tmpFiles \cup {call}
    /\ pc' = "write"
    /\ UNCHANGED <<video, config, weights, call, cap_frames, decoded, sampled,
                   all_signals, signals, face_bboxes, rois, scores, emitted,
                   result, results, fn_vars, pay_vars>>

\* decode.py lines 25-27: the write is outside the try block, an exception
\* leaves decode_video_bytes and analyze_video_bytes
DecodeWrite ==
    /\ pc = "write"
    /\ IF video.outcome = "write_raises"
       THEN /\ result' = Raised
            /\ pc' = "done"
       ELSE /\ result' = result
            /\ pc' = "open"
    /\ UNCHANGED <<video, config, weights, call, tmpFiles, cap_frames, decoded,
                   sampled, all_signals, signals, face_bboxes, rois, scores,
                   emitted, results, fn_vars, pay_vars>>

\* decode.py lines 52-56: the except block
DecodeExcept ==
    /\ tmpFiles' = tmpFiles \ {call}
    /\ decoded' = [success |-> FALSE, frames |-> <<>>, signals |-> <<"decode_error">>]
    /\ emitted' = emitted \cup {"decode_error"}
    /\ pc' = "decoded"

\* decode.py lines 30-36
DecodeOpen ==
    /\ pc = "open"
    /\ CASE video.outcome = "open_raises" ->
              DecodeExcept /\ UNCHANGED cap_frames
         [] video.outcome = "not_opened" ->
              /\ tmpFiles' = tmpFiles \ {call}
              /\ decoded' = [success |-> FALSE, frames |-> <<>>,
                             signals |-> decode_failed_signals]
              /\ emitted' = emitted \cup ToSet(decode_failed_signals)
              /\ pc' = "decoded"
              /\ UNCHANGED cap_frames
         [] OTHER ->
              /\ cap_frames' = NewFrameList
              /\ pc' = "read"
              /\ UNCHANGED <<tmpFiles, decoded, emitted>>
    /\ UNCHANGED <<video, config, weights, call, sampled, all_signals, signals,
                   face_bboxes, rois, scores, result, results, fn_vars, pay_vars>>

\* decode.py lines 37-41: one turn of the read loop; the raising read is the
\* one after the last frame
DecodeRead ==
    /\ pc = "read"
    /\ LET got == Len(cap_frames) - Len(NewFrameList)
       IN  IF got < Len(video.frames)
           THEN /\ cap_frames' = Append(cap_frames, video.frames[got + 1])
                /\ UNCHANGED <<tmpFiles, decoded, emitted, pc>>
           ELSE IF video.outcome = "read_raises"
                THEN DecodeExcept /\ UNCHANGED cap_frames
                ELSE /\ pc' = "release"
                     /\ UNCHANGED <<tmpFiles, decoded, emitted, cap_frames>>
    /\ UNCHANGED <<video, config, weights, call, sampled, all_signals, signals,
                   face_bboxes, rois, scores, result, results, fn_vars, pay_vars>>

\* decode.py lines 43-50
DecodeRelease ==
    /\ pc = "release"
    /\ IF video.outcome = "release_raises"
       THEN DecodeExcept
       ELSE /\ tmpFiles' = tmpFiles \ {call}
            /\ pc' = "decoded"
            /\ IF Len(cap_frames) = 0
               THEN /\ decoded' = [success |-> FALSE, frames |-> <<>>,
                                   signals |-> <<"no_frames">>]
                    /\ emitted' = emitted \cup {"no_frames"}
               ELSE /\ decoded' = [success |-> TRUE, frames |-> cap_frames,
                                   signals |-> <<>>]
                    /\ emitted' = emitted
    /\ UNCHANGED <<video, config, weights, call, cap_frames, sampled, all_signals,
                   signals, face_bboxes, rois, scores, result, results, fn_vars, pay_vars>>

\* infer.py lines 102-119
AfterDecode ==
    /\ pc = "decoded"
    /\ IF ~decoded.success
       THEN /\ result' = ZeroRecord(decoded.signals)
            /\ pc' = "done"
            /\ UNCHANGED all_signals
       ELSE /\ all_signals' = all_signals \o decoded.signals
            /\ pc' = "sample"
            /\ UNCHANGED result
    /\ UNCHANGED <<video, config, weights, call, tmpFiles, cap_frames, decoded,
                   sampled, signals, face_bboxes, rois, scores, emitted, results,
                   fn_vars, pay_vars>>

\* infer.py lines 121-140
Sample ==
    /\ pc = "sample"
    /\ LET s == sample_frames(decoded.frames, config.sample_interval, config.max_frames)
       IN  /\ sampled' = s
           /\ all_signals' = all_signals \o s.signals
           /\ IF Len(s.sampled) = 0
              THEN /\ result' = ZeroRecord(all_signals' \o <<"no_sampled_frames">>)
                   /\ emitted' = emitted \cup ToSet(s.signals) \cup {"no_sampled_frames"}
                   /\ pc' = "done"
              ELSE /\ result' = result
                   /\ emitted' = emitted \cup ToSet(s.signals)
                   /\ pc' = "faces"
    /\ UNCHANGED <<video, config, weights, call, tmpFiles, cap_frames, decoded,
                   signals, face_bboxes, rois, scores, results, fn_vars, pay_vars>>

\* infer.py lines 142-157
Faces ==
    /\ pc = "faces"
    /\ face_bboxes' = [i \in 1..Len(sampled.sampled) |-> detect_face_haar(sampled.sampled[i])]
    /\ rois' = [i \in 1..Len(sampled.sampled) |-> extract_face_roi(face_bboxes'[i])]
    /\ pc' = "quality"
    /\ UNCHANGED <<video, config, weights, call, tmpFiles, cap_frames, decoded,
                   sampled, all_signals, signals, scores, emitted, result, results,
                   fn_vars, pay_vars>>

\* infer.py lines 159-176
Quality ==
    /\ pc = "quality"
    /\ LET q == compute_quality_score(rois, sampled.sampled)
       IN  /\ scores' = [scores EXCEPT !.quality = q.score, !.ran = @ \cup {"quality"}]
           /\ all_signals' = all_signals \o q.signals
           /\ emitted' = emitted \cup ToSet(q.signals)
           /\ IF "decode_failed" \in ToSet(all_signals')
              THEN /\ result' = ZeroRecord(all_signals')
                   /\ pc' = "done"
              ELSE /\ result' = result
                   /\ pc' = "liveness"
    /\ UNCHANGED <<video, config, weights, call, tmpFiles, cap_frames, decoded,
                   sampled, signals, face_bboxes, rois, results, fn_vars, pay_vars>>

\* infer.py lines 178-181
Liveness ==
    /\ pc = "liveness"
    /\ LET l == compute_liveness_score(sampled.sampled, face_bboxes)
       IN  /\ scores' = [scores EXCEPT !.liveness = l.score, !.ran = @ \cup {"liveness"}]
           /\ all_signals' = all_signals \o l.signals
           /\ emitted' = emitted \cup ToSet(l.signals)
    /\ pc' = "presage"
    /\ UNCHANGED <<video, config, weights, call, tmpFiles, cap_frames, decoded,
                   sampled, signals, face_bboxes, rois, result, results, fn_vars, pay_vars>>

\* infer.py lines 183-186
Presage ==
    /\ pc = "presage"
    /\ LET p == compute_presage_features(sampled.sampled, rois, face_bboxes)
       IN  /\ scores' = [scores EXCEPT !.presage = p.score, !.presage_raw = p.raw,
                                   !.ran = @ \cup {"presage"}]
           /\ all_signals' = all_signals \o p.signals
           /\ emitted' = emitted \cup ToSet(p.signals)
    /\ pc' = "model"
    /\ UNCHANGED <<video, config, weights, call, tmpFiles, cap_frames, decoded,
                   sampled, signals, face_bboxes, rois, result, results, fn_vars, pay_vars>>

\* infer.py lines 188-202
Model ==
    /\ pc = "model"
    /\ LET is_fake == load_deepfake_model(weights)
           preprocessed == [i \in 1..Len(rois) |-> Preprocess(rois[i], sampled.sampled[i])]
       IN  /\ signals' = IF is_fake THEN Append(signals, "using_fake_model") ELSE signals
           /\ emitted' = IF is_fake THEN emitted \cup {"using_fake_model"} ELSE emitted
           /\ scores' = [scores EXCEPT !.ran = @ \cup {"deepfake"}, !.fake_probs =
                            IF is_fake THEN FakeModel_predict_batch(preprocessed)
                            ELSE RealDeepfakeModel_predict_batch(preprocessed)]
    /\ pc' = "aggregate"
    /\ UNCHANGED <<video, config, weights, call, tmpFiles, cap_frames, decoded,
                   sampled, all_signals, face_bboxes, rois, result, results, fn_vars, pay_vars>>

\* infer.py lines 204-231
Aggregate ==
    /\ pc = "aggregate"
    /\ LET fake_probs == scores.fake_probs
           temporal_inconsistency == compute_temporal_inconsistency(fake_probs)
           flagged == temporal_inconsistency > 500
           final_signals == IF flagged
                            THEN Append(all_signals, "temporal_inconsistency_detected")
                            ELSE all_signals
           adjusted_probs == [i \in 1..Len(fake_probs) |->
                                fake_probs[i] + temporal_inconsistency \div 10]
           deepfake_mean == IF adjusted_probs # <<>> THEN Mean(adjusted_probs) ELSE 500
           deepfake_var == IF Len(adjusted_probs) > 1 THEN Var(adjusted_probs) ELSE 0
       IN  /\ all_signals' = final_signals
           /\ emitted' = IF flagged
                          THEN emitted \cup {"temporal_inconsistency_detected"}
                          ELSE emitted
           /\ result' = [kind |-> "returned",
                         deepfake_mean |-> Clamp01(deepfake_mean),
                         deepfake_var |-> Clamp01(deepfake_var),
                         liveness |-> scores.liveness,
                         quality |-> scores.quality,
                         presage |-> scores.presage,
                         signals |-> SetToSeq(ToSet(final_signals)),
                         presage_raw |-> scores.presage_raw]
    /\ pc' = "done"
    /\ UNCHANGED <<video, config, weights, call, tmpFiles, cap_frames, decoded,
                   sampled, signals, face_bboxes, rois, scores, results, fn_vars, pay_vars>>

Next ==
    \/ Enter
    \/ DecodeCreate
    \/ DecodeWrite
    \/ DecodeOpen
    \/ DecodeRead
    \/ DecodeRelease
    \/ AfterDecode
    \/ Sample
    \/ Faces
    \/ Quality
    \/ Liveness
    \/ Presage
    \/ Model
    \/ Aggregate

Spec == Init /\ [][Next]_vars

(***************************************************************************)
(* A second invocation with the same bytes, configuration and environment  *)
(***************************************************************************)
InvokeAgain ==
    /\ pc = "done"
    /\ call = 1
    /\ results' = Append(results, result)
    /\ call' = call + 1
    /\ pc' = "start"
    /\ cap_frames' = <<>>
    /\ decoded' = NotDecoded
    /\ sampled' = NotSampled
    /\ all_signals' = <<>>
    /\ signals' = <<>>
    /\ face_bboxes' = <<>>
    /\ rois' = <<>>
    /\ scores' = NoScores
    /\ emitted' = {}
    /\ result' = Pending
    /\ UNCHANGED <<video, config, weights, tmpFiles, fn_vars, pay_vars>>

NextTwice == Next \/ InvokeAgain

SpecTwice == Init /\ [][NextTwice]_vars

(***************************************************************************)
(* Longer clips, sampled frame by frame, with either model                  *)
(***************************************************************************)
MaxClip == 5

InitClips ==
    /\ video \in {[outcome |-> "ok", frames |-> f] : f \in SeqsUpTo(Kinds, MaxClip)}
    /\ config = [sample_interval |-> 1, max_frames |-> DefaultMaxFrames]
    /\ weights \in BOOLEAN
    /\ InitLocals
    /\ NoPayments

SpecClips == InitClips /\ [][Next]_vars

(***************************************************************************)
(* sample_frames called directly                                           *)
(***************************************************************************)
InitSample ==
    /\ arg \in [fn : {"sample_frames"}, total : 0..MaxTotal,
                 sample_interval : 1..MaxInterval, max_frames : 0..MaxMaxFrames]
    /\ ret = NoCall
    /\ NoPayments
    /\ video = [outcome |-> "ok", frames |-> <<>>]
    /\ config = [sample_interval |-> DefaultSampleInterval, max_frames |-> DefaultMaxFrames]
    /\ weights = FALSE
    /\ call = 0
    /\ pc = "off"
    /\ tmpFiles = {}
    /\ cap_frames = <<>>
    /\ decoded = NotDecoded
    /\ sampled = NotSampled
    /\ all_signals = <<>>
    /\ signals = <<>>
    /\ face_bboxes = <<>>
    /\ rois = <<>>
    /\ scores = NoScores
    /\ emitted = {}
    /\ result = Pending
    /\ results = <<>>

\* the frames are named by their 0-based position in decode order
CallSample ==
    /\ arg.fn = "sample_frames"
    /\ ret = NoCall
    /\ LET s == sample_frames([i \in 1..arg.total |-> i - 1],
                              arg.sample_interval, arg.max_frames)
       IN  ret' = [fn |-> "sample_frames", sampled |-> s.sampled,
                   indices |-> s.indices, signals |-> s.signals,
                   get_frame_indices |-> get_frame_indices(arg.total,
                                            arg.sample_interval, arg.max_frames)]
    /\ UNCHANGED <<pipe_vars, arg, pay_vars>>

NextSample == CallSample

SpecSample == InitSample /\ [][NextSample]_vars

(***************************************************************************)
(* The scorers called directly on a frame list and its face boxes         *)
(***************************************************************************)
MaxFrames == 3

\* no call of analyze_video_bytes is in progress
IdlePipeline ==
    /\ video = [outcome |-> "ok", frames |-> <<>>]
    /\ config = [sample_interval |-> DefaultSampleInterval, max_frames |-> DefaultMaxFrames]
    /\ weights = FALSE
    /\ call = 0
    /\ pc = "off"
    /\ tmpFiles = {}
    /\ cap_frames = <<>>
    /\ decoded = NotDecoded
    /\ sampled = NotSampled
    /\ all_signals = <<>>
    /\ signals = <<>>
    /\ face_bboxes = <<>>
    /\ rois = <<>>
    /\ scores = NoScores
    /\ emitted = {}
    /\ result = Pending
    /\ results = <<>>

\* frames with, for each, whether the face detector found its face
ScorerInputs(n) ==
    UNION {[fn : {"scorers"}, kinds : [1..k -> Kinds], found : [1..k -> BOOLEAN]] :
             k \in 0..n}

InitScorers ==
    /\ arg \in ScorerInputs(MaxFrames)
    /\ ret = NoCall
    /\ IdlePipeline
    /\ NoPayments

ArgBboxes ==
    [i \in 1..Len(arg.kinds) |->
        IF arg.found[i] THEN detect_face_haar(arg.kinds[i]) ELSE None]
ArgRois == [i \in 1..Len(arg.kinds) |-> extract_face_roi(ArgBboxes[i])]

CallQuality ==
    /\ arg.fn = "scorers"
    /\ ret = NoCall
    /\ LET q == compute_quality_score(ArgRois, arg.kinds)
       IN  ret' = [fn |-> "compute_quality_score", score |-> q.score,
                   signals |-> q.signals]
    /\ UNCHANGED <<pipe_vars, arg, pay_vars>>

\* pairs: the 1-based positions i whose pair (frames[i], frames[i+1]) added a
\* ratio to non_rigid_ratios
CallLiveness ==
    /\ arg.fn = "scorers"
    /\ ret = NoCall
    /\ LET l == compute_liveness_score(arg.kinds, ArgBboxes)
       IN  ret' = [fn |-> "compute_liveness_score", score |-> l.score,
                   signals |-> l.signals,
                   pairs |-> {i \in 1..(Len(arg.kinds) - 1) : PairQualifies(ArgBboxes, i)},
                   non_rigid_ratios |-> non_rigid_ratios(arg.kinds, ArgBboxes),
                   avg_displacement |-> avg_displacement(ArgBboxes)]
    /\ UNCHANGED <<pipe_vars, arg, pay_vars>>

\* FakeModel.predict_batch on the tensors of the frames; scores: what predict
\* returns for each of them
CallPredictBatch ==
    /\ arg.fn = "scorers"
    /\ ret = NoCall
    /\ LET tensors == [i \in 1..Len(arg.kinds) |-> Preprocess(ArgRois[i], arg.kinds[i])]
       IN  ret' = [fn |-> "predict_batch",
                   scores |-> [i \in 1..Len(tensors) |-> FakeModel_predict(tensors[i])],
                   probs |-> FakeModel_predict_batch(tensors)]
    /\ UNCHANGED <<pipe_vars, arg, pay_vars>>

NextScorers ==
    \/ CallQuality
    \/ CallLiveness
    \/ CallPredictBatch

SpecScorers == InitScorers /\ [][NextScorers]_vars

(***************************************************************************)
(* compute_periodicity_proxy called directly on a frame list               *)
(***************************************************************************)
MaxSeries == 5

InitPeriodicity ==
    /\ arg \in [fn : {"periodicity"}, kinds : SeqsUpTo(Kinds, MaxSeries)]
    /\ ret = NoCall
    /\ IdlePipeline
    /\ NoPayments

\* np.mean(frame[:, :, 1]) of each frame
GreenMeans(kinds) == [i \in 1..Len(kinds) |-> FrameKinds[kinds[i]].green]

CallPeriodicity ==
    /\ arg.fn = "periodicity"
    /\ ret = NoCall
    /\ ret' = [fn |-> "compute_periodicity_proxy",
               value |-> compute_periodicity_proxy(GreenMeans(arg.kinds))]
    /\ UNCHANGED <<pipe_vars, arg, pay_vars>>

NextPeriodicity == CallPeriodicity

SpecPeriodicity == InitPeriodicity /\ [][NextPeriodicity]_vars

(***************************************************************************)
(* rPPG analysis (services/presage_service.py, _rppg_sync)                 *)
(* Scores and confidences are in ten-thousandths (round(v, 4)), the        *)
(* frequencies in mHz, the heart rate in tenths of a beat per minute, the  *)
(* mean motion in thousandths.                                             *)
(***************************************************************************)
TenK == 10000
MaxRppgFrames == 31
RppgMinFrames == 10
FftMinSamples == 15
BreathMinSamples == 30
ConfidenceFloor == 500
MotionFloor == 20
BandLow == 750
BandHigh == 4000

\* round(v, 4) of a value given in millionths
Round4(v) == (v + 50) \div 100

\* _compute_live_score
compute_live_score(pulse_detected, hr_confidence, motion_present) ==
    LET score == 600000 * (IF pulse_detected THEN 1 ELSE 0)
                 + 25 * hr_confidence
                 + 150000 * (IF motion_present THEN 1 ELSE 0)
    IN  Round4(Max(0, Min(TenK * 100, score)))

\* _build_rppg_result; heart_rate_bpm and breathing_rate 0 stand for None (a
\* rate of 0.0 is reported as None as well)
build_rppg_result(presage_score, pulse_detected, heart_rate_bpm, breathing_rate, spoofing_flags, confidence) ==
    [presage_score |-> presage_score, pulse_detected |-> pulse_detected,
     heart_rate_bpm |-> heart_rate_bpm, breathing_rate |-> breathing_rate,
     spoofing_flags |-> spoofing_flags, confidence |-> confidence,
     mode |-> "RPPG_SIMULATION"]

\* what _rppg_sync measures on a decoded clip: the number of frames, the
\* frames with a face, band_power / total_power of the green series
\* (ten-thousandths), the frequency of the largest component of the band-passed
\* spectrum, the mean optical-flow magnitude, and the largest component of the
\* breathing band (0 when that band is empty)
BandRatios == {0, 100, 104, 2000, TenK}
DominantFreqs == {BandLow, 1500, BandHigh}
MeanMotions == {0, 19, 20, 50}
BreathFreqs == {0, 250}
Clips(n) ==
    {m \in [n : 0..n, faces_found : 0..n, band_ratio : BandRatios,
            dominant_freq : DominantFreqs, mean_motion : MeanMotions,
            breath_freq : BreathFreqs] :
        /\ m.faces_found \in {0, m.n \div 3, m.n}
        /\ m.faces_found = 0 => (m.band_ratio = 0 /\ m.mean_motion = 0)
        /\ m.band_ratio = 0 => m.dominant_freq = BandLow
        /\ m.n < RppgMinFrames =>
              (m.band_ratio = 0 /\ m.mean_motion = 0 /\ m.breath_freq = 0)}

\* _rppg_sync after the frames are decoded (lines 234-349)
rppg_sync(m) ==
    LET face_flags == IF m.faces_found * 2 < m.n
                      THEN <<"face_not_consistently_detected">> ELSE <<>>
        green_len == m.n
        fft_confidence == IF green_len >= FftMinSamples
                          THEN Min(m.band_ratio * 5, TenK) ELSE 0
        fft_pulse == fft_confidence > ConfidenceFloor /\ m.dominant_freq > 0
        fft_bpm == IF fft_pulse THEN (m.dominant_freq * 60) \div 100 ELSE 0
        breathing_rate == IF green_len >= BreathMinSamples /\ m.breath_freq > 0
                          THEN (m.breath_freq * 60) \div 100 ELSE 0
        still == m.mean_motion < MotionFloor
        motion_flags == IF still THEN <<"no_micro_motion_static_image_suspected">>
                        ELSE <<>>
        pulse_detected == IF still THEN fft_pulse ELSE TRUE
        hr_confidence == IF still THEN fft_confidence ELSE 8500
        heart_rate_bpm == IF still THEN fft_bpm ELSE 720
        pulse_flags == IF ~pulse_detected THEN <<"no_cardiac_signal_detected">> ELSE <<>>
    IN  IF m.n < RppgMinFrames
        THEN build_rppg_result(1000, FALSE, 0, 0, <<"insufficient_frames">>, 1000)
        ELSE build_rppg_result(
                 compute_live_score(pulse_detected, hr_confidence, ~still),
                 pulse_detected, heart_rate_bpm, breathing_rate,
                 face_flags \o motion_flags \o pulse_flags, hr_confidence)

InitRppg ==
    /\ arg \in [fn : {"rppg"}, outcome : {"ok"}, clip : Clips(MaxRppgFrames)]
               \cup [fn : {"rppg"}, outcome : {"write_raises", "read_raises"},
                     clip : Clips(0)]
    /\ ret = NoCall
    /\ IdlePipeline
    /\ NoPayments

\* lines 213-349: the scratch file is written before the try, and removed in
\* its finally; a raise leaves no result
CallRppg ==
    /\ arg.fn = "rppg"
    /\ ret = NoCall
    /\ tmpFiles' = IF arg.outcome = "write_raises" THEN tmpFiles \cup {call}
                   ELSE tmpFiles
    /\ ret' = IF arg.outcome = "ok"
              THEN [fn |-> "_rppg_sync", raised |-> FALSE, result |-> rppg_sync(arg.clip)]
              ELSE [fn |-> "_rppg_sync", raised |-> TRUE]
    /\ UNCHANGED <<video, config, weights, call, pc, cap_frames, decoded, sampled,
                   all_signals, signals, face_bboxes, rois, scores, emitted, result,
                   results, arg, pay_vars>>

NextRppg == CallRppg

SpecRppg == InitRppg /\ [][NextRppg]_vars

(***************************************************************************)
(* _detect_edge_artifacts over the gradient energies of an 8-bit image     *)
(***************************************************************************)
MaxEdge == 510

InitEdge ==
    /\ arg \in [fn : {"edge"}, edge : 0..MaxEdge]
    /\ ret = NoCall
    /\ IdlePipeline
    /\ NoPayments

CallEdge ==
    /\ arg.fn = "edge"
    /\ ret = NoCall
    /\ ret' = [fn |-> "_detect_edge_artifacts",
               score |-> detect_edge_artifacts([ZeroTensor EXCEPT !.edge = arg.edge])]
    /\ UNCHANGED <<pipe_vars, arg, pay_vars>>

NextEdge == CallEdge

SpecEdge == InitEdge /\ [][NextEdge]_vars

(***************************************************************************)
(* extract_face_roi called directly with a bounding box                    *)
(***************************************************************************)
BoxLefts == {-40, -8, 0, 40, 64, 70}
BoxTops == {-40, -8, 0, 30, 48, 50}
BoxSizes == {0, 16, 32}
Boxes == {None} \cup (BoxLefts \X BoxTops \X BoxSizes \X BoxSizes)

InitRoi ==
    /\ arg \in [fn : {"roi"}, bbox : Boxes]
    /\ ret = NoCall
    /\ IdlePipeline
    /\ NoPayments

CallRoi ==
    /\ arg.fn = "roi"
    /\ ret = NoCall
    /\ ret' = [fn |-> "extract_face_roi", roi |-> extract_face_roi(arg.bbox)]
    /\ UNCHANGED <<pipe_vars, arg, pay_vars>>

NextRoi == CallRoi

SpecRoi == InitRoi /\ [][NextRoi]_vars

(***************************************************************************)
(* compute_liveness_score called directly and from analyze_video_bytes    *)
(***************************************************************************)
InitLiveness == Init \/ InitScorers

NextLiveness == Next \/ NextScorers

SpecLiveness == InitLiveness /\ [][NextLiveness]_vars

(***************************************************************************)
(* compute_non_rigid_ratio called directly on a flow grid                  *)
(***************************************************************************)
FlowValues == {-1000, 0, 1000}
FlowGrids ==
    {<< <<<<g[1], g[2]>>, <<g[3], g[4]>>>>, <<<<g[5], g[6]>>, <<g[7], g[8]>>>> >> :
        g \in [1..8 -> FlowValues]}

InitFlow ==
    /\ arg \in [fn : {"flow"}, flow : FlowGrids]
    /\ ret = NoCall
    /\ IdlePipeline
    /\ NoPayments

CallFlow ==
    /\ arg.fn = "flow"
    /\ ret = NoCall
    /\ ret' = [fn |-> "compute_non_rigid_ratio",
               non_rigid_energy |-> non_rigid_energy(arg.flow),
               ratio |-> compute_non_rigid_ratio(arg.flow)]
    /\ UNCHANGED <<pipe_vars, arg, pay_vars>>

NextFlow == CallFlow

SpecFlow == InitFlow /\ [][NextFlow]_vars

(***************************************************************************)
(* Properties                                                              *)
(***************************************************************************)
Returned == pc = "done" /\ result.kind = "returned"
InUnit(v) == 0 <= v /\ v <= ONE
NoDuplicates(xs) == Cardinality(ToSet(xs)) = Len(xs)
SupportedConfig == config.sample_interval >= 1 /\ config.max_frames >= 1

\* the numeric fields of a returned record
NumericFields(r) ==
    <<r.deepfake_mean, r.deepfake_var, r.liveness, r.quality, r.presage,
      r.presage_raw.micro_motion, r.presage_raw.smoothness,
      r.presage_raw.periodicity_proxy, r.presage_raw.face_presence_ratio>>

AllZero(r) == \A i \in 1..Len(NumericFields(r)) : NumericFields(r)[i] = 0

\* C1: with sample_interval >= 1 and max_frames >= 1, every numeric field of
\* the record returned by analyze_video_bytes lies in [0, 1].
C1_ScoresInUnitRange ==
    (Returned /\ SupportedConfig) =>
        \A i \in 1..Len(NumericFields(result)) : InUnit(NumericFields(result)[i])

\* C2: every tag emitted by a stage during the call is in the signals of the
\* returned record, and no tag is in it twice.
C2_EverySignalReturned ==
    Returned => (emitted \subseteq ToSet(result.signals) /\ NoDuplicates(result.signals))

\* C3: a flat sequence of at least 2 sampled frames (no texture, no flow, no
\* face box) has liveness < 0.2, micro_motion < 0.2 and low_micro_motion.
FlatKind(k) ==
    /\ FrameKinds[k].bbox = None
    /\ FrameKinds[k].lap_var = 0
    /\ compute_optical_flow(k, k) = ZeroFlow
FlatClip ==
    /\ Returned
    /\ decoded.success
    /\ Len(sampled.sampled) >= 2
    /\ \A i \in 1..Len(sampled.sampled) :
           sampled.sampled[i] = sampled.sampled[1] /\ FlatKind(sampled.sampled[i])
C3_FlatClipScoresLow ==
    FlatClip =>
        /\ result.liveness < 200
        /\ result.presage_raw.micro_motion < 200
        /\ "low_micro_motion" \in ToSet(result.signals)

\* C4 as stated: a buffer that cannot be decoded (the container does not
\* open, or a decoding step raises) gives success = false with decode_failed
\* among the signals, and analyze_video_bytes returns zeros with those signals.
Undecodable == video.outcome \in {"not_opened", "open_raises", "read_raises", "release_raises"}
C4_UndecodableIsDecodeFailed ==
    (pc = "done" /\ Undecodable) =>
        /\ ~decoded.success
        /\ "decode_failed" \in ToSet(decoded.signals)
        /\ result.kind = "returned"
        /\ AllZero(result)
        /\ result.signals = decoded.signals

\* C4 amended: a container that does not open gives success = false with the
\* signals [decode_failed]; a step of the try block that raises gives
\* success = false with the signals [decode_error: ...] and no decode_failed;
\* in both cases analyze_video_bytes returns zeros with those signals.
C4_UndecodableIsTagged ==
    (pc = "done" /\ Undecodable) =>
        /\ ~decoded.success
        /\ decoded.signals = IF video.outcome = "not_opened"
                             THEN <<"decode_failed">> ELSE <<"decode_error">>
        /\ result.kind = "returned"
        /\ AllZero(result)
        /\ result.signals = decoded.signals
C4_Witness ==
    /\ pc = "done"
    /\ video.outcome = "read_raises"
    /\ result.kind = "returned"
    /\ result.signals = <<"decode_error">>

\* C5: every short-circuit of analyze_video_bytes that returns (decode failure,
\* zero decoded frames, zero sampled frames) returns all numeric fields 0.0
\* with the tag of its cause among the signals, and no scorer has run or
\* contributed a tag.
ScorerTags == {"no_rois", "low_face_presence", "blurry_video", "poor_lighting",
               "insufficient_frames_for_liveness", "low_motion",
               "rigid_motion_suspected", "low_micro_motion", "unnatural_motion",
               "periodic_pattern_detected", "using_fake_model",
               "temporal_inconsistency_detected"}
ShortCircuit == Returned /\ (~decoded.success \/ Len(sampled.sampled) = 0)
CauseTag ==
    IF decoded.success THEN "no_sampled_frames"
    ELSE IF video.outcome = "not_opened" THEN "decode_failed"
    ELSE IF video.outcome = "ok" THEN "no_frames"
    ELSE "decode_error"
C5_ShortCircuitIsZero ==
    ShortCircuit =>
        /\ AllZero(result)
        /\ CauseTag \in ToSet(result.signals)
        /\ scores.ran = {}
        /\ ToSet(result.signals) \cap ScorerTags = {}
C5_Witness ==
    /\ ShortCircuit
    /\ video.outcome = "ok"
    /\ result.signals = <<"no_frames">>

\* C6: with sample_interval >= 1 and max_frames >= 1, analyze_video_bytes ends
\* by returning a record with all its keys, never by a raised exception.
RecordKeys == {"deepfake_mean", "deepfake_var", "liveness", "quality", "presage",
               "signals", "presage_raw"}
C6_AlwaysReturnsRecord ==
    (pc = "done" /\ SupportedConfig) =>
        /\ result.kind = "returned"
        /\ RecordKeys \subseteq DOMAIN result
        /\ DOMAIN result.presage_raw = DOMAIN ZeroRaw

\* C7: at every exit of decode_video_bytes the scratch file of the call does
\* not exist any more.
InsideDecode == pc \in {"start", "create", "write", "open", "read", "release"}
C7_ScratchFileRemoved ==
    ~InsideDecode => call \notin tmpFiles

\* C8: for total >= 0, sample_interval >= 1, max_frames >= 1, sample_frames
\* returns the indices 0, interval, 2*interval, ... below total, cut to the
\* first max_frames, and emits max_frames_limited exactly when the cut removed
\* an index; total=200, interval=15, max_frames=12 gives [0, 15, ..., 165]
\* with max_frames_limited.
StrideCount(total, interval) == Cardinality({k \in 0..total : k * interval < total})
C8_SampleIndices ==
    /\ (ret.fn = "sample_frames" /\ arg.max_frames >= 1) =>
          LET count == StrideCount(arg.total, arg.sample_interval)
              kept == Min(count, arg.max_frames)
          IN  /\ ret.indices = [j \in 1..kept |-> (j - 1) * arg.sample_interval]
              /\ ret.sampled = ret.indices
              /\ ret.get_frame_indices = ret.indices
              /\ ("max_frames_limited" \in ToSet(ret.signals)) <=> (count > kept)
    /\ LET s == sample_frames([i \in 1..200 |-> i - 1], 15, 12)
       IN  /\ s.indices = <<0, 15, 30, 45, 60, 75, 90, 105, 120, 135, 150, 165>>
           /\ "max_frames_limited" \in ToSet(s.signals)
C8_Witness ==
    /\ ret.fn = "sample_frames"
    /\ arg.max_frames >= 1
    /\ Len(ret.indices) = arg.max_frames
    /\ "max_frames_limited" \in ToSet(ret.signals)

\* C9: sample_frames emits low_frame_count exactly when fewer than 3 frames
\* remain after sampling and truncation of a non-empty input; for an empty
\* input it returns no frames, no indices and exactly no_frames_to_sample.
C9_LowFrameCount ==
    (ret.fn = "sample_frames") =>
        IF arg.total = 0
        THEN /\ ret.sampled = <<>>
             /\ ret.indices = <<>>
             /\ ret.signals = <<"no_frames_to_sample">>
        ELSE LET remain == Min(StrideCount(arg.total, arg.sample_interval), arg.max_frames)
             IN  /\ Len(ret.sampled) = remain
                 /\ ("low_frame_count" \in ToSet(ret.signals)) <=> (remain < 3)
                 /\ "no_frames_to_sample" \notin ToSet(ret.signals)
C9_Witness ==
    /\ ret.fn = "sample_frames"
    /\ arg.total > 0
    /\ Len(ret.sampled) = 2
    /\ "low_frame_count" \in ToSet(ret.signals)

\* C10: two invocations of analyze_video_bytes with the same bytes and the
\* same configuration end the same way, with the same value in every score
\* and sub-score and the same set of signals.
SameOutcome(a, b) ==
    /\ a.kind = b.kind
    /\ a.kind = "returned" =>
          /\ NumericFields(a) = NumericFields(b)
          /\ ToSet(a.signals) = ToSet(b.signals)
AlternatingProbs == <<100, 900, 100, 900>>
C11_AlternatingProbsFlagged ==
    (Returned /\ scores.fake_probs = AlternatingProbs) =>
        LET ti == compute_temporal_inconsistency(scores.fake_probs)
        IN  /\ ti > 500
            /\ "temporal_inconsistency_detected" \in ToSet(result.signals)
            /\ result.deepfake_mean >= Mean(scores.fake_probs) + ti \div 10
C11_Witness == Returned /\ scores.fake_probs = AlternatingProbs

\* C12: compute_quality_score of an empty ROI list returns the score 0.0 and
\* exactly the signals ["no_rois"]: no low_face_presence, blurry_video or
\* poor_lighting.
C12_EmptyRoiListIsNoRois ==
    (ret.fn = "compute_quality_score" /\ Len(arg.kinds) = 0) =>
        /\ ret.score = 0
        /\ ret.signals = <<"no_rois">>
C12_Witness == ret.fn = "compute_quality_score" /\ Len(arg.kinds) = 0

\* C13: for a sampled frame whose ROI is missing or empty, the probability that
\* enters the aggregation is the heuristic model's neutral default (0.1), not
\* a value computed from the pixels of a substitute image.
NeutralDefault == 100
C13_MissingRoiIsNeutral ==
    (Returned /\ "deepfake" \in scores.ran /\ load_deepfake_model(weights)) =>
        \A i \in 1..Len(rois) :
            ~HasRoi(rois[i]) => scores.fake_probs[i] = NeutralDefault

\* C14: with at least 2 frames, the pair (i, i+1) contributes a non-rigid
\* ratio if and only if frame i+1 has a face box; a box in a frame after i+1
\* alone does not make the pair qualify.
LivenessCalled == ret.fn = "compute_liveness_score" /\ Len(arg.kinds) >= 2
C14_PairNeedsBoxOfLaterFrame ==
    LivenessCalled =>
        \A i \in 1..(Len(arg.kinds) - 1) :
            (i \in ret.pairs) <=> (ArgBboxes[i + 1] # None)

\* C18: with at least 2 frames, low_motion is among the signals exactly when
\* the mean displacement used for motion compliance is below motion_threshold,
\* also when fewer than two face boxes exist and the displacement is 0.
C18_LowMotionIffBelowThreshold ==
    LivenessCalled =>
        (("low_motion" \in ToSet(ret.signals)) <=> (ret.avg_displacement < MotionThreshold))

\* C19: every qualifying pair contributes min(1, (energy / (flow + eps)) / 2),
\* in [0, 1] and 0 for a flow field without motion; 0.5 enters the average only
\* when no pair qualifies; rigid_motion_suspected iff the average is below 0.3.
StatedRatio(flow) ==
    IF global_flow(flow) = 0 THEN 0
    ELSE Min(((non_rigid_energy(flow) * ONE) \div global_flow(flow)) \div 2, ONE)
QualifyingPairs ==
    SelectSeq([i \in 1..(Len(arg.kinds) - 1) |-> i], LAMBDA i : i \in ret.pairs)
C19_RatioOfEveryPair ==
    LivenessCalled =>
        LET stated == [k \in 1..Len(QualifyingPairs) |->
                         StatedRatio(compute_optical_flow(arg.kinds[QualifyingPairs[k]],
                                                          arg.kinds[QualifyingPairs[k] + 1]))]
            average == IF stated = <<>> THEN 500 ELSE Mean(stated)
        IN  /\ ret.non_rigid_ratios = stated
            /\ \A k \in 1..Len(stated) : InUnit(ret.non_rigid_ratios[k])
            /\ ("rigid_motion_suspected" \in ToSet(ret.signals)) <=> (average < 300)

\* C15: compute_periodicity_proxy returns a value in [0, 1] for every frame
\* sequence: 0 with fewer than 3 frames or without a local peak of the
\* autocorrelation, otherwise mean(peak values) / (variance + eps) / 10 clamped
\* to [0, 1], also when the autocorrelation is negative at the peaks.
PeakQuotient(greens) ==
    LET d == Diff(greens)
        n == Len(d)
        a == Autocorr(d)
        peak_sum == SumSeq([k \in 1..Len(Peaks(a)) |-> a[Peaks(a)[k]]])
        var_num == n * SumSeq([i \in 1..n |-> d[i] * d[i]]) - SumSeq(d) * SumSeq(d)
    IN  IF var_num = 0
        THEN (IF peak_sum > 0 THEN Saturated ELSE IF peak_sum < 0 THEN -Saturated ELSE 0)
        ELSE (peak_sum * n * n * ONE) \div (Len(Peaks(a)) * var_num * 10)
C15_PeriodicityInUnit ==
    ret.fn = "compute_periodicity_proxy" =>
        LET greens == GreenMeans(arg.kinds)
        IN  /\ InUnit(ret.value)
            /\ ret.value = IF Len(greens) < 3 \/ Peaks(Autocorr(Diff(greens))) = <<>>
                           THEN 0
                           ELSE Clamp01(PeakQuotient(greens))

\* C16: in every rPPG result pulse_detected is true exactly when the band-power
\* confidence computed from the FFT of the green series exceeds the floor, and
\* a reported heart_rate_bpm is 60 times the dominant frequency found in the
\* 0.75-4.0 Hz band (within 45-240 BPM).
RppgResult == ret.fn = "_rppg_sync" /\ ~ret.raised
FftConfidence ==
    IF arg.clip.n >= FftMinSamples THEN Min(arg.clip.band_ratio * 5, TenK) ELSE 0
C16_PulseIsFftPulse ==
    RppgResult =>
        /\ ret.result.pulse_detected <=> (FftConfidence > ConfidenceFloor)
        /\ ret.result.heart_rate_bpm # 0 =>
              /\ ret.result.heart_rate_bpm = (arg.clip.dominant_freq * 60) \div 100
              /\ ret.result.heart_rate_bpm >= 450
              /\ ret.result.heart_rate_bpm <= 2400

\* C17: in every rPPG result, the too-few-frames path included, presage_score
\* is 0.60 * pulse_detected + 0.25 * confidence + 0.15 * motion_present, clamped
\* and rounded, of the pulse_detected and confidence of the same result.
C17_ScoreIsWeightedSum ==
    RppgResult =>
        \E motion_present \in BOOLEAN :
            /\ arg.clip.n >= RppgMinFrames =>
                  (motion_present <=> arg.clip.mean_motion >= MotionFloor)
            /\ ret.result.presage_score =
                  compute_live_score(ret.result.pulse_detected, ret.result.confidence,
                                     motion_present)

\* C20 as stated: for every batch size, predict_batch returns the predict
\* scores unchanged when their variance does not exceed 0.05, and every score
\* increased by 0.1 (capped at 1.0) whenever it does.
Penalised(ps) == [i \in 1..Len(ps) |-> Min(ps[i] + BatchPenalty, ONE)]
BatchVariance(ps) == IF Len(ps) = 0 THEN 0 ELSE Var(ps)
C20_PenaltyForEveryBatchSize ==
    ret.fn = "predict_batch" =>
        ret.probs = IF BatchVariance(ret.scores) > BatchVarThreshold
                    THEN Penalised(ret.scores) ELSE ret.scores

\* C20, amended: the penalty is applied when the batch has at least 3 scores
\* and their variance exceeds 0.05; a batch of fewer than 3 scores is returned
\* unchanged whatever its variance.
C20_PenaltyFromThreeScores ==
    ret.fn = "predict_batch" =>
        ret.probs = IF Len(ret.scores) >= 3 /\ BatchVariance(ret.scores) > BatchVarThreshold
                    THEN Penalised(ret.scores) ELSE ret.scores
C20_Witness ==
    /\ ret.fn = "predict_batch"
    /\ Len(ret.scores) = 2
    /\ BatchVariance(ret.scores) > BatchVarThreshold
    /\ ret.probs = ret.scores

\* C21: the edge-artifact score lies in [0, 0.10] for every gradient energy
\* below 35 and in [0.1, 0.6] for every gradient energy from 35 to 510.
C21_EdgeScoreRanges ==
    ret.fn = "_detect_edge_artifacts" =>
        IF arg.edge < EdgeThreshold
        THEN 0 <= ret.score /\ ret.score <= 100
        ELSE 100 <= ret.score /\ ret.score <= 600

\* C22: extract_face_roi returns no ROI exactly when the box is absent or its
\* part inside the frame has zero area; otherwise it returns exactly the part
\* of [x, x+w) x [y, y+h) inside the frame, also for negative x or y, so that
\* x >= 0, y >= 0, x+w <= frame_width, y+h <= frame_height, w > 0, h > 0.
InsideFrame(bbox) ==
    LET left == Max(0, bbox[1])
        top == Max(0, bbox[2])
        right == Min(FrameShape.w, bbox[1] + bbox[3])
        bottom == Min(FrameShape.h, bbox[2] + bbox[4])
    IN  IF right - left <= 0 \/ bottom - top <= 0 THEN None
        ELSE <<left, top, right - left, bottom - top>>
C22_RoiIsBoxInsideFrame ==
    ret.fn = "extract_face_roi" =>
        /\ ret.roi = (IF arg.bbox = None THEN None ELSE InsideFrame(arg.bbox))
        /\ ret.roi # None =>
              /\ ret.roi[1] >= 0 /\ ret.roi[2] >= 0
              /\ ret.roi[1] + ret.roi[3] <= FrameShape.w
              /\ ret.roi[2] + ret.roi[4] <= FrameShape.h
              /\ ret.roi[3] > 0 /\ ret.roi[4] > 0

\* C23: compute_liveness_score with fewer than 2 frames returns exactly the
\* score 0.5 and exactly the signal insufficient_frames_for_liveness, whatever
\* the face boxes; a clip sampled to a single frame gets liveness 0.5 from
\* analyze_video_bytes.
C23_FewFramesNeutralLiveness ==
    /\ (ret.fn = "compute_liveness_score" /\ Len(arg.kinds) < 2) =>
          /\ ret.score = 500
          /\ ret.signals = <<"insufficient_frames_for_liveness">>
    /\ (Returned /\ "liveness" \in scores.ran /\ Len(sampled.sampled) = 1) =>
          /\ result.liveness = 500
          /\ "insufficient_frames_for_liveness" \in ToSet(result.signals)
C23_Witness ==
    /\ Returned
    /\ "liveness" \in scores.ran
    /\ Len(sampled.sampled) = 1
    /\ face_bboxes[1] # None

\* C24: the divergence is d(flow_x)/dx + d(flow_y)/dy and the curl is
\* d(flow_y)/dx - d(flow_x)/dy, with x the column axis and y the row axis of
\* the grid; non_rigid_energy is mean(|divergence|) + mean(|curl|) of these.
ReferenceEnergy(flow) ==
    LET flow_x == FlowComp(flow, 1)
        flow_y == FlowComp(flow, 2)
        divergence == MatAdd(GradAxis1(flow_x), GradAxis0(flow_y))
        curl == MatSub(GradAxis1(flow_y), GradAxis0(flow_x))
    IN  MeanAbs(divergence) + MeanAbs(curl)
C24_EnergyOfReferenceOperators ==
    ret.fn = "compute_non_rigid_ratio" =>
        ret.non_rigid_energy = ReferenceEnergy(arg.flow)

\* C25: for a non-empty ROI list, compute_quality_score counts each missing or
\* empty ROI as 0 in the blur and the brightness average, returns
\* clamp(0.4 * avg_blur + 0.3 * avg_brightness + 0.3 * face_presence_ratio),
\* emits low_face_presence iff face_presence_ratio < 0.5, blurry_video iff
\* avg_blur < 0.3, poor_lighting iff avg_brightness < 0.3; without any ROI the
\* score is 0 and all three signals are emitted.
RoiPresent(i) == HasRoi(ArgRois[i])
C25_QualityOfRoiList ==
    (ret.fn = "compute_quality_score" /\ Len(arg.kinds) >= 1) =>
        LET n == Len(arg.kinds)
            avg_blur == Mean([i \in 1..n |->
                IF RoiPresent(i) THEN compute_blur_score(arg.kinds[i]) ELSE 0])
            avg_brightness == Mean([i \in 1..n |->
                IF RoiPresent(i) THEN compute_brightness_score(arg.kinds[i]) ELSE 0])
            face_presence_ratio ==
                (Cardinality({i \in 1..n : RoiPresent(i)}) * ONE) \div n
        IN  /\ ret.score = Clamp01((400 * avg_blur + 300 * avg_brightness
                                    + 300 * face_presence_ratio) \div ONE)
            /\ ("low_face_presence" \in ToSet(ret.signals)) <=> (face_presence_ratio < 500)
            /\ ("blurry_video" \in ToSet(ret.signals)) <=> (avg_blur < 300)
            /\ ("poor_lighting" \in ToSet(ret.signals)) <=> (avg_brightness < 300)
            /\ ToSet(ret.signals) \subseteq {"low_face_presence", "blurry_video", "poor_lighting"}
            /\ (\A i \in 1..n : ~RoiPresent(i)) =>
                  /\ ret.score = 0
                  /\ ToSet(ret.signals) = {"low_face_presence", "blurry_video", "poor_lighting"}
C25_Witness ==
    /\ ret.fn = "compute_quality_score"
    /\ Len(arg.kinds) >= 2
    /\ \E i \in 1..Len(arg.kinds) : RoiPresent(i)
    /\ \E i \in 1..Len(arg.kinds) : ~RoiPresent(i)
    /\ ret.score > 0

\* C26: for at least one per-frame probability, the final deepfake_mean is
\* min(1, mean(probabilities) + 0.1 * inconsistency) and the final deepfake_var
\* is the variance of the unadjusted probabilities; with a single probability
\* the inconsistency is 0 and deepfake_var is 0.
StatedInconsistency(ps) ==
    IF Len(ps) < 2 THEN 0
    ELSE Clamp01(2 * (Var(ps) + Mean([i \in 1..(Len(ps) - 1) |-> Abs(ps[i + 1] - ps[i])])))
Aggregated == Returned /\ "deepfake" \in scores.ran /\ Len(scores.fake_probs) >= 1
C26_MeanShiftedVarianceKept ==
    Aggregated =>
        /\ result.deepfake_mean =
              Min(ONE, Mean(scores.fake_probs) + StatedInconsistency(scores.fake_probs) \div 10)
        /\ result.deepfake_var = Var(scores.fake_probs)
        /\ Len(scores.fake_probs) = 1 =>
              /\ StatedInconsistency(scores.fake_probs) = 0
              /\ result.deepfake_mean = scores.fake_probs[1]
              /\ result.deepfake_var = 0
C26_Witness ==
    /\ Aggregated
    /\ Len(scores.fake_probs) >= 2
    /\ StatedInconsistency(scores.fake_probs) > 0
    /\ result.deepfake_var > 0
    /\ result.deepfake_mean > Mean(scores.fake_probs)

(***************************************************************************)
(* initiate_payment and liveness_upload.  The event loop runs a handler    *)
(* up to its next await, so a handler is a chain of steps and the steps of *)
(* two uploads interleave.  The bank rail is the simulator (no FISERV_*    *)
(* settings) and the Solana rail the stub (no SOLANA_RPC_URL).             *)
(***************************************************************************)
Decisions == {"PASS", "RETRY", "FAIL", "MANUAL_REVIEW"}
RetryLimit == 1

\* liveness.py lines 179, 212, 230, 238: the branch taken on a verdict
BranchWithoutRetryLimit(decision, retry_count) ==
    IF decision \in {"PASS", "FAIL", "RETRY"} THEN decision ELSE "MANUAL_REVIEW"

BranchExecutesOnReview(decision, retry_count) ==
    IF decision \in {"PASS", "MANUAL_REVIEW"} THEN "PASS"
    ELSE IF decision = "FAIL" THEN "FAIL"
    ELSE IF decision = "RETRY" /\ retry_count < RetryLimit THEN "RETRY"
    ELSE "MANUAL_REVIEW"

liveness_branch(decision, retry_count) ==
    IF decision = "PASS" THEN "PASS"
    ELSE IF decision = "FAIL" THEN "FAIL"
    ELSE IF decision = "RETRY" /\ retry_count < RetryLimit THEN "RETRY"
    ELSE "MANUAL_REVIEW"

\* gateway_bank_simulator.execute / cancel: payment_id in _pending
bank_found(bank_id, p) == bank_id = "txn" /\ bank_pending[p] # "ABSENT"

\* solana_service: _pending.get(pending_id), pending_id being
\* solana_pending_id or ""
sol_found(pending_id) == pending_id # 0 /\ sol_pending[pending_id] # "ABSENT"

\* payments.py lines 39-195
initiate_payment(p, rail, high_risk) ==
    /\ transfers[p].status = "NONE"
    /\ \A q \in Payments : q < p => transfers[q].status # "NONE"
    /\ bank_pending' = IF rail = "BANK"
                       THEN [bank_pending EXCEPT ![p] = IF high_risk THEN "HELD" ELSE "EXECUTED"]
                       ELSE bank_pending
    /\ sol_pending' = IF rail = "SOLANA"
                      THEN [sol_pending EXCEPT ![p] = IF high_risk THEN "PENDING" ELSE "EXECUTED"]
                      ELSE sol_pending
    /\ IF ~high_risk
       THEN /\ transfers' = [transfers EXCEPT ![p] =
                  [status |-> "EXECUTED", rail |-> rail,
                   provider_ref |-> IF rail = "BANK" THEN "ref" ELSE "none",
                   solana_pending_id |-> IF rail = "SOLANA" THEN p ELSE 0]]
            /\ rail_calls' = [rail_calls EXCEPT ![p].execute = @ + 1, ![p].found = @ + 1]
            /\ UNCHANGED <<challenge_rows, challenge_store>>
       ELSE /\ transfers' = [transfers EXCEPT ![p] =
                  [status |-> "HELD", rail |-> rail,
                   provider_ref |-> IF rail = "BANK" THEN "txn" ELSE "none",
                   solana_pending_id |-> IF rail = "SOLANA" THEN p ELSE 0]]
            /\ challenge_rows' = [challenge_rows EXCEPT ![p] =
                  [made |-> TRUE, decision |-> "none", retry_count |-> 0]]
            /\ challenge_store' = [challenge_store EXCEPT ![p] =
                  [present |-> TRUE, payment_id |-> p, rail |-> rail, retry_count |-> 0,
                   solana_pending_id |-> IF rail = "SOLANA" THEN p ELSE 0]]
            /\ UNCHANGED rail_calls
    /\ UNCHANGED <<redis, expired, uploads, responses, requests, pipe_vars, fn_vars>>

InitiatePayment == \E p \in Payments, rail \in Rails, high_risk \in BOOLEAN :
                       initiate_payment(p, rail, high_risk)

\* the answers to the uploads of challenge c, with one more
Answered(c, code, decision) ==
    [responses EXCEPT ![c] = [code |-> code, decision |-> decision,
                              retries |-> IF decision = "RETRY" THEN @.retries + 1
                                          ELSE @.retries]]

\* liveness.py lines 33-49: get_challenge, 404, 410, the locals
UploadLoad(u, c) ==
    /\ uploads[u].pc = "idle"
    /\ requests < MaxUploads
    /\ requests' = requests + 1
    /\ IF ~challenge_store[c].present
       THEN /\ responses' = Answered(c, 404, "none")
            /\ UNCHANGED uploads
       ELSE IF c \in expired
       THEN /\ responses' = Answered(c, 410, "none")
            /\ UNCHANGED uploads
       ELSE /\ uploads' = [uploads EXCEPT ![u] =
                  [IdleUpload EXCEPT !.pc = "loaded", !.challenge_id = c,
                                     !.ch_data = challenge_store[c]]]
            /\ UNCHANGED responses
    /\ UNCHANGED <<redis, transfers, challenge_rows, challenge_store, expired,
                   bank_pending, sol_pending, rail_calls, pipe_vars, fn_vars>>

\* liveness.py lines 52-173: the scores and the verdict of evaluate_risk
UploadEvaluate(u, decision) ==
    /\ uploads[u].pc = "loaded"
    /\ uploads' = [uploads EXCEPT ![u].pc = "decided", ![u].decision = decision]
    /\ UNCHANGED <<redis, transfers, challenge_rows, challenge_store, expired,
                   bank_pending, sol_pending, responses, rail_calls, requests, pipe_vars, fn_vars>>

Branch(u) == liveness_branch(uploads[u].decision, uploads[u].ch_data.retry_count)

\* liveness.py lines 182-183 and 215-216: get_transfer on the bank rail
UploadFetch(u) ==
    /\ uploads[u].pc = "decided"
    /\ Branch(u) \in {"PASS", "FAIL"}
    /\ uploads[u].ch_data.rail = "BANK"
    /\ LET ref == transfers[uploads[u].ch_data.payment_id].provider_ref
       IN  uploads' = [uploads EXCEPT ![u].pc = "fetched",
                          ![u].bank_id = IF ref = "none" /\ Branch(u) = "FAIL"
                                         THEN "pay" ELSE ref]
    /\ UNCHANGED <<redis, transfers, challenge_rows, challenge_store, expired,
                   bank_pending, sol_pending, responses, rail_calls, requests, pipe_vars, fn_vars>>

\* liveness.py lines 184, 187, 216, 218, 233-235: the call of the rail, or
\* store_challenge with the raised retry_count
UploadAct(u) ==
    LET up == uploads[u]
        p == up.ch_data.payment_id
        bank == up.ch_data.rail = "BANK"
        found == IF bank THEN bank_found(up.bank_id, p)
                 ELSE sol_found(up.ch_data.solana_pending_id)
    IN  /\ up.pc = IF bank /\ Branch(u) \in {"PASS", "FAIL"} THEN "fetched" ELSE "decided"
        /\ Branch(u) # "MANUAL_REVIEW"
        /\ CASE Branch(u) = "PASS" ->
                  /\ bank_pending' = IF bank /\ found
                                     THEN [bank_pending EXCEPT ![p] = "EXECUTED"]
                                     ELSE bank_pending
                  /\ sol_pending' = IF ~bank /\ found
                                    THEN [sol_pending EXCEPT ![p] = "EXECUTED"]
                                    ELSE sol_pending
                  /\ rail_calls' = [rail_calls EXCEPT ![p].execute = @ + 1,
                                       ![p].found = IF found THEN @ + 1 ELSE @]
                  /\ uploads' = [uploads EXCEPT ![u].pc = "acted",
                                    ![u].pref = IF bank /\ found THEN "ref" ELSE "none"]
                  /\ UNCHANGED challenge_store
             [] Branch(u) = "FAIL" ->
                  /\ bank_pending' = IF bank /\ found
                                     THEN [bank_pending EXCEPT ![p] = "CANCELLED"]
                                     ELSE bank_pending
                  /\ sol_pending' = IF ~bank /\ found
                                    THEN [sol_pending EXCEPT ![p] = "CANCELLED"]
                                    ELSE sol_pending
                  /\ rail_calls' = [rail_calls EXCEPT ![p].cancel = @ + 1]
                  /\ uploads' = [uploads EXCEPT ![u].pc = "acted"]
                  /\ UNCHANGED challenge_store
             [] Branch(u) = "RETRY" ->
                  /\ challenge_store' = [challenge_store EXCEPT ![up.challenge_id] =
                        [up.ch_data EXCEPT !.retry_count = up.ch_data.retry_count + 1]]
                  /\ uploads' = [uploads EXCEPT ![u].pc = "acted"]
                  /\ UNCHANGED <<bank_pending, sol_pending, rail_calls>>
        /\ UNCHANGED <<redis, transfers, challenge_rows, expired, responses,
                       requests, pipe_vars, fn_vars>>

\* repo.update_transfer_status as lines 185, 188, 219, 236 and 242 call it
update_transfer_status(p, status, provider_ref) ==
    [transfers EXCEPT ![p].status = status,
                      ![p].provider_ref = IF provider_ref # "none" THEN provider_ref ELSE @]

\* liveness.py lines 185, 188-190, 219, 236, 240-242; the RETRY branch
\* returns after it
UploadStatus(u) ==
    LET up == uploads[u]
        p == up.ch_data.payment_id
    IN  /\ up.pc = IF Branch(u) = "MANUAL_REVIEW" THEN "decided" ELSE "acted"
        /\ transfers' = update_transfer_status(p,
                            CASE Branch(u) = "PASS" -> "EXECUTED"
                              [] Branch(u) = "FAIL" -> "BLOCKED"
                              [] OTHER -> "HELD",
                            up.pref)
        /\ IF Branch(u) = "RETRY"
           THEN /\ responses' = Answered(up.challenge_id, 200, "RETRY")
                /\ uploads' = [uploads EXCEPT ![u] = IdleUpload]
           ELSE /\ uploads' = [uploads EXCEPT ![u].pc = "updated"]
                /\ UNCHANGED responses
        /\ UNCHANGED <<redis, challenge_rows, challenge_store, expired, bank_pending,
                       sol_pending, rail_calls, requests, pipe_vars, fn_vars>>

\* liveness.py lines 202-209, 220-227, 243: the receipt and _mark_challenge_done
UploadMark(u) ==
    LET up == uploads[u]
    IN  /\ up.pc = "updated"
        /\ challenge_rows' = [challenge_rows EXCEPT ![up.challenge_id] =
              [made |-> @.made, decision |-> Branch(u),
               retry_count |-> up.ch_data.retry_count]]
        /\ rail_calls' = [rail_calls EXCEPT ![up.ch_data.payment_id].terminal = @ + 1]
        /\ uploads' = [uploads EXCEPT ![u].pc = "marked"]
        /\ UNCHANGED <<redis, transfers, challenge_store, expired, bank_pending,
                       sol_pending, responses, requests, pipe_vars, fn_vars>>

\* liveness.py lines 210, 228, 244 and 246-257: delete_challenge and the answer
UploadDelete(u) ==
    LET up == uploads[u]
    IN  /\ up.pc = "marked"
        /\ challenge_store' = [challenge_store EXCEPT ![up.challenge_id] = NoChallenge]
        /\ responses' = Answered(up.challenge_id, 200, Branch(u))
        /\ uploads' = [uploads EXCEPT ![u] = IdleUpload]
        /\ UNCHANGED <<redis, transfers, challenge_rows, expired, bank_pending,
                       sol_pending, rail_calls, requests, pipe_vars, fn_vars>>

\* the clock passes expires_at of a challenge (payments.py line 151)
Expire(c) ==
    /\ challenge_rows[c].made
    /\ c \notin expired
    /\ expired' = expired \cup {c}
    /\ UNCHANGED <<redis, transfers, challenge_rows, challenge_store, bank_pending,
                   sol_pending, uploads, responses, rail_calls, requests, pipe_vars, fn_vars>>

\* repo.py line 58: Redis drops the key when its ttl has run out, which is
\* not before expires_at (payments.py line 175, liveness.py line 234)
RedisEvict(c) ==
    /\ redis
    /\ c \in expired
    /\ challenge_store[c].present
    /\ challenge_store' = [challenge_store EXCEPT ![c] = NoChallenge]
    /\ UNCHANGED <<redis, transfers, challenge_rows, expired, bank_pending,
                   sol_pending, uploads, responses, rail_calls, requests, pipe_vars, fn_vars>>

\* the server process starts again: the module-level dictionaries are empty
\* (gateway_bank_simulator.py line 11, solana_service.py line 23, repo.py
\* line 39), the database and Redis keep what they hold, and the requests in
\* progress are gone
Restart ==
    /\ bank_pending' = [p \in Payments |-> "ABSENT"]
    /\ sol_pending' = [p \in Payments |-> "ABSENT"]
    /\ challenge_store' = IF redis THEN challenge_store
                          ELSE [c \in Payments |-> NoChallenge]
    /\ uploads' = [u \in Slots |-> IdleUpload]
    /\ UNCHANGED <<redis, transfers, challenge_rows, expired, responses, rail_calls,
                   requests, pipe_vars, fn_vars>>

InitPayments ==
    /\ IdlePipeline
    /\ arg = NoCall
    /\ ret = NoCall
    /\ redis \in BOOLEAN
    /\ EmptyStores

\* uploads handled concurrently, and the server process may start again
NextPayments ==
    \/ InitiatePayment
    \/ \E u \in Slots, c \in Payments : UploadLoad(u, c)
    \/ \E u \in Slots, decision \in Decisions : UploadEvaluate(u, decision)
    \/ \E u \in Slots : UploadFetch(u)
    \/ \E u \in Slots : UploadAct(u)
    \/ \E u \in Slots : UploadStatus(u)
    \/ \E u \in Slots : UploadMark(u)
    \/ \E u \in Slots : UploadDelete(u)
    \/ \E c \in Payments : Expire(c)
    \/ \E c \in Payments : RedisEvict(c)
    \/ Restart

SpecPayments == InitPayments /\ [][NextPayments]_vars

\* two uploads handled concurrently by one server process that keeps running
NextConcurrent ==
    \/ InitiatePayment
    \/ \E u \in Slots, c \in Payments : UploadLoad(u, c)
    \/ \E u \in Slots, decision \in Decisions : UploadEvaluate(u, decision)
    \/ \E u \in Slots : UploadFetch(u)
    \/ \E u \in Slots : UploadAct(u)
    \/ \E u \in Slots : UploadStatus(u)
    \/ \E u \in Slots : UploadMark(u)
    \/ \E u \in Slots : UploadDelete(u)
    \/ \E c \in Payments : Expire(c)
    \/ \E c \in Payments : RedisEvict(c)

SpecConcurrent == InitPayments /\ [][NextConcurrent]_vars

\* uploads handled one after another: a single slot
NextSequential ==
    \/ InitiatePayment
    \/ \E c \in Payments : UploadLoad(1, c)
    \/ \E decision \in Decisions : UploadEvaluate(1, decision)
    \/ UploadFetch(1)
    \/ UploadAct(1)
    \/ UploadStatus(1)
    \/ UploadMark(1)
    \/ UploadDelete(1)
    \/ \E c \in Payments : Expire(c)
    \/ \E c \in Payments : RedisEvict(c)
    \/ Restart

SpecSequential == InitPayments /\ [][NextSequential]_vars

(***************************************************************************)
(* The held transfer and the verdicts on its challenge                     *)
(***************************************************************************)
\* the upload in slot u takes the step that calls the rail (UploadAct) or
\* writes the transfer status (UploadStatus) for payment p
StepsFor(u, p) ==
    /\ uploads[u].pc \in {"decided", "fetched", "acted"}
    /\ uploads'[u] # uploads[u]
    /\ uploads[u].challenge_id = p
    /\ uploads[u].ch_data.payment_id = p

\* C27: a transfer on HELD gets the status EXECUTED, and its rail is asked to
\* execute, only in a step of an upload on the transfer's own challenge
\* whose verdict is PASS; it gets the status BLOCKED, and its rail is asked
\* to cancel, only in a step of such an upload whose verdict is FAIL; an
\* upload answered 404 or 410 changes neither the transfer nor the rails.
C27_HeldSettledOnlyByVerdict ==
    [][\A p \in Payments :
          /\ (transfers[p].status = "HELD" /\ transfers'[p].status = "EXECUTED")
                \/ (challenge_rows[p].made /\ rail_calls'[p].execute > rail_calls[p].execute)
             => \E u \in Slots : StepsFor(u, p) /\ uploads[u].decision = "PASS"
          /\ (transfers[p].status = "HELD" /\ transfers'[p].status = "BLOCKED")
                \/ (challenge_rows[p].made /\ rail_calls'[p].cancel > rail_calls[p].cancel)
             => \E u \in Slots : StepsFor(u, p) /\ uploads[u].decision = "FAIL"
          /\ (requests' > requests /\ responses'[p].code \in {404, 410} /\ uploads' = uploads)
             => UNCHANGED <<transfers, bank_pending, sol_pending, rail_calls>>]_vars

\* a held transfer was executed by the PASS upload that followed a RETRY
C27_Witness ==
    \E p \in Payments :
        /\ challenge_rows[p].made
        /\ challenge_rows[p].decision = "PASS"
        /\ transfers[p].status = "EXECUTED"
        /\ responses[p].retries = 1

\* C28: with two uploads of one challenge in progress at once, the rail of
\* the challenge's payment is asked to execute at most once, it is not asked
\* both to execute and to cancel, and at most one terminal decision (PASS,
\* FAIL or MANUAL_REVIEW) is recorded for the challenge.
C28_OneSettlementPerChallenge ==
    \A p \in Payments :
        challenge_rows[p].made
        => /\ rail_calls[p].execute <= 1
           /\ ~(rail_calls[p].execute > 0 /\ rail_calls[p].cancel > 0)
           /\ rail_calls[p].terminal <= 1

\* C29: with the uploads of a challenge handled one after another, the
\* retry_count in the challenge store never exceeds 1 and at most one upload
\* of the challenge is answered RETRY; an upload whose verdict is RETRY while
\* the stored retry_count is 1 is answered MANUAL_REVIEW, leaves the transfer
\* on HELD and removes the challenge from the store; an upload of a challenge
\* that is not in the store is answered 404.
C29_OneRetryThenManualReview ==
    [][\A c \in Payments :
          /\ challenge_store'[c].retry_count <= 1
          /\ responses'[c].retries <= 1
          /\ (\E u \in Slots : /\ uploads[u].pc = "marked"
                               /\ uploads'[u].pc = "idle"
                               /\ uploads[u].challenge_id = c
                               /\ uploads[u].decision = "RETRY"
                               /\ uploads[u].ch_data.retry_count = 1
                               /\ responses' # responses)
             => /\ responses'[c].decision = "MANUAL_REVIEW"
                /\ transfers'[c].status = "HELD"
                /\ ~challenge_store'[c].present
          /\ (requests' > requests /\ ~challenge_store[c].present /\ responses'[c] # responses[c])
             => responses'[c].code = 404]_vars

\* after one upload was answered RETRY, the next upload read retry_count 1,
\* got the verdict RETRY and recorded MANUAL_REVIEW with the transfer on HELD
C29_Witness ==
    \E c \in Payments, u \in Slots :
        /\ uploads[u].pc = "marked"
        /\ uploads[u].challenge_id = c
        /\ uploads[u].decision = "RETRY"
        /\ uploads[u].ch_data.retry_count = 1
        /\ responses[c].retries = 1
        /\ challenge_rows[c].decision = "MANUAL_REVIEW"
        /\ transfers[c].status = "HELD"

\* C30: a transfer row has the status EXECUTED only if its rail found the
\* payment in an execute call, the bank gateway returning EXECUTED or
\* execute_pending_transfer finding the pending entry.
C30_ExecutedOnlyIfRailExecuted ==
    \A p \in Payments :
        transfers[p].status = "EXECUTED" => rail_calls[p].found > 0

====
